---------------------------- MODULE Spec2Model ----------------------------
(***************************************************************************)
(* A model of warp-drop's transfer protocol: the send-mode download        *)
(* handler (internal/server/http.go, handleDownload with ZipDirectory),    *)
(* the receiving client (internal/client/receiver.go, Receive) and the     *)
(* host-mode upload handlers (handleUpload, handleRawUpload,               *)
(* findUniqueFilename).                                                    *)
(*                                                                         *)
(* Strings whose characters the code inspects (URL paths, the session      *)
(* token, Range headers, file names) are sequences of one-character        *)
(* strings.  File contents and response bodies are sequences of integers:  *)
(* payload bytes are the members of Byte, 0 is the zero byte of a          *)
(* pre-sized file, and text produced by the server itself (the line        *)
(* http.Error writes, zip framing) is a negative integer.                  *)
(***************************************************************************)
EXTENDS Integers, Sequences, FiniteSets, TLC

(***************************************************************************)
(* Bounds of the model.                                                    *)
(***************************************************************************)
\* longest source file / text blob
MaxSize == 2
\* largest offset the filesystem lets a regular file be positioned at
\* (lseek fails with EINVAL beyond it); at least MaxSize
MaxSeek == 3
\* length of the session token
TokenLen == 2
\* the upload ceiling, standing for the 10 GiB of MaxUploadSize
MaxUploadSize == 2
\* the numbered names findUniqueFilename tries before the timestamp name,
\* the plain name included; stands for the 1000 of its loop
CollisionLimit == 3
\* the values time.Now().UnixNano() may take
MaxClock == 2
\* connections served at the same time
MaxConns == 2
\* requests in a run of concurrent raw uploads
MaxRaceRequests == 2
\* requests in a run of a host session serving one request at a time
MaxHostRequests == 2

Byte == {1, 2}
TokenChars == {"a", "b"}

(***************************************************************************)
(* Strings as sequences of characters.                                     *)
(***************************************************************************)
SeqsUpTo(S, n) == UNION {[1..k -> S] : k \in 0..n}

HasPrefix(s, p) == Len(s) >= Len(p) /\ SubSeq(s, 1, Len(p)) = p

TrimPrefix(s, p) == IF HasPrefix(s, p) THEN SubSeq(s, Len(p) + 1, Len(s)) ELSE s

Digit(d) == <<"0", "1", "2", "3", "4", "5", "6", "7", "8", "9">>[d + 1]

DigitVal(c) == CHOOSE d \in 0..9 : Digit(d) = c

IsDigit(c) == c \in {"0", "1", "2", "3", "4", "5", "6", "7", "8", "9"}

RECURSIVE UItoa(_)
UItoa(n) == IF n < 10 THEN <<Digit(n)>> ELSE UItoa(n \div 10) \o <<Digit(n % 10)>>

\* fmt's %d
Itoa(n) == IF n < 0 THEN <<"-">> \o UItoa(-n) ELSE UItoa(n)

\* the digits at the head of s
RECURSIVE DigitRun(_)
DigitRun(s) ==
    IF s # <<>> /\ IsDigit(Head(s)) THEN <<Head(s)>> \o DigitRun(Tail(s)) ELSE <<>>

RECURSIVE DigitsVal(_, _)
DigitsVal(ds, acc) ==
    IF ds = <<>> THEN acc ELSE DigitsVal(Tail(ds), 10 * acc + DigitVal(Head(ds)))

\* fmt.Sscanf(s, "%d-", &v): an optional sign, at least one digit, then a
\* literal "-"; whatever follows is left unread.
ScanIntDash(s) ==
    LET signed == s # <<>> /\ Head(s) \in {"+", "-"}
        body   == IF signed THEN Tail(s) ELSE s
        ds     == DigitRun(body)
        rest   == SubSeq(body, Len(ds) + 1, Len(body))
        mag    == DigitsVal(ds, 0)
    IN  IF ds = <<>> \/ rest = <<>> \/ Head(rest) # "-"
        THEN [ok |-> FALSE, val |-> 0]
        ELSE [ok |-> TRUE, val |-> IF signed /\ Head(s) = "-" THEN -mag ELSE mag]

(***************************************************************************)
(* protocol/handshake.go                                                   *)
(***************************************************************************)
PathPrefix == <<"/", "d", "/">>

UploadPathPrefix == <<"/", "u", "/">>

(***************************************************************************)
(* State.                                                                  *)
(***************************************************************************)
VARIABLES
    \* the send-mode session (Server) and its source
    token,        \* Server.Token
    textContent,  \* Server.TextContent, a sequence of bytes
    src,          \* what the filesystem holds at Server.SrcPath
    hostMode,     \* Server.HostMode
    \* one exchange on the download endpoint
    req,          \* the request being answered
    resp,         \* the response to it
    lastStatus,   \* the status of the exchange before, 0 when there was none,
                  \* -1 when its connection was lost
    \* per connection, the download handler serving it
    down,
    zw,           \* ZipDirectory at work: the walk and its zip.Writer
    \* client.Receive
    cpc,          \* where the call stands
    url,          \* its url argument: the request path
    force,        \* its force argument
    dest,         \* the file at outputPath
    startByte,    \* local startByte
    existingSize, \* local existingSize
    totalSize,    \* local totalSize
    issued,       \* the requests this call has put on the wire, in order
    dl,           \* downloadResp
    copied,       \* bytes of downloadResp.Body that io.Copy has moved
    result,       \* what the call returned
    stdout,       \* what has been written to os.Stdout
    pread,        \* progressReader.read; -1 when there is no progressReader
    \* the host-mode session and the filesystem under it
    uploadDir,    \* Server.UploadDir
    dirs,         \* the directories that exist, by path
    names,        \* the files that exist: path -> inode
    inodes,       \* inode -> content, for files linked or held open
    up,           \* per connection, the upload handler serving it
    nreq,         \* requests accepted so far
    log           \* the finished upload requests, in the order they finished

sessionVars == <<token, textContent, src, hostMode>>

exchangeVars == <<req, resp, lastStatus, down, zw>>

clientVars ==
    <<cpc, url, force, dest, startByte, existingSize, totalSize, issued, dl,
      copied, result, stdout, pread>>

hostVars == <<uploadDir, dirs, names, inodes, up, nreq, log>>

vars == <<sessionVars, exchangeVars, clientVars, hostVars>>

(***************************************************************************)
(* The source at Server.SrcPath: nothing, a regular file, or a directory   *)
(* whose files and subdirectories are listed in filepath.Walk's (lexical)  *)
(* order.                                                                  *)
(***************************************************************************)
NoSource == [kind |-> "none", data |-> <<>>, entries |-> <<>>]

FileSource(d) == [kind |-> "file", data |-> d, entries |-> <<>>]

DirSource(es) == [kind |-> "dir", data |-> <<>>, entries |-> es]

\* a regular file that os.Stat finds and os.Open refuses
ClosedFile == [kind |-> "closedfile", data |-> <<1>>, entries |-> <<>>]

\* what the walk of a directory visits below the root: for each entry its
\* path relative to the root, whether it is a directory, and for a regular
\* file its content and whether os.Open and the reads of it succeed
SubDir(name) == [name |-> name, dir |-> TRUE, data |-> <<>>, readable |-> TRUE]

RegularFile(name, data, readable) ==
    [name |-> name, dir |-> FALSE, data |-> data, readable |-> readable]

DirEntries ==
    LET e1 == {RegularFile(1, <<1>>, r) : r \in BOOLEAN}
        e2 == {RegularFile(2, d, r) : d \in {<<>>, <<2, 1>>}, r \in BOOLEAN}
    IN  {<<>>} \cup {<<a>> : a \in e1} \cup {<<a, b>> : a \in e1, b \in e2}
               \cup {<<SubDir(2)>>}
               \cup {<<a, SubDir(2), [b EXCEPT !.name = 3]>> : a \in e1, b \in e2}

\* a directory that os.Stat finds and whose listing cannot be read
ClosedDir ==
    [kind |-> "closeddir", data |-> <<>>, entries |-> <<RegularFile(1, <<1>>, TRUE)>>]

Sources ==
    {NoSource, ClosedFile, ClosedDir}
        \cup {FileSource(d) : d \in SeqsUpTo(Byte, MaxSize)}
        \cup {DirSource(es) : es \in DirEntries}

Tokens == [1..TokenLen -> TokenChars]

(***************************************************************************)
(* Requests and responses.                                                 *)
(***************************************************************************)
\* "Range: bytes=N-"
BytesFrom(n) == <<"b", "y", "t", "e", "s", "=">> \o Itoa(n) \o <<"-">>

\* Range header values a request may carry; <<>> is no Range header
RangeHeaders ==
    {<<>>} \cup {BytesFrom(n) : n \in 0..(MaxSeek + 1)}
           \cup { <<"b", "y", "t", "e", "s", "=", "-", "1">>,
                  <<"b", "y", "t", "e", "s", "=", "1", "-", "1">>,
                  <<"i", "t", "e", "m", "s", "=", "1", "-">> }

NoRange == <<>>

Response(status, body) ==
    [status |-> status, ctype |-> "", cdisp |-> "", clen |-> -1,
     fname |-> "", crange |-> <<>>, cache |-> "", pragma |-> "", expires |-> "",
     body |-> body]

NoResponse == Response(0, <<>>)

\* http.Error: the status, a text/plain line with the message, nothing else
HttpError(code) ==
    [Response(code, <<-code>>) EXCEPT !.ctype = "text/plain; charset=utf-8"]


(***************************************************************************)
(* net/http's ServeFile, as handleDownload uses it: the whole file with    *)
(* 200, or, because the request is handed over with its headers, the       *)
(* single range its own Range parser accepts with 206, or 416.             *)
(***************************************************************************)
\* strings.Cut(s, "-"): the position of the first "-", 0 when there is none
DashIndex(s) ==
    IF \E i \in 1..Len(s) : s[i] = "-"
    THEN CHOOSE i \in 1..Len(s) : s[i] = "-" /\ \A j \in 1..(i - 1) : s[j] # "-"
    ELSE 0

\* strconv.ParseInt(s, 10, 64)
ParseInt(s) ==
    LET signed == s # <<>> /\ Head(s) \in {"+", "-"}
        body   == IF signed THEN Tail(s) ELSE s
    IN  IF body = <<>> \/ \E i \in 1..Len(body) : ~IsDigit(body[i])
        THEN [ok |-> FALSE, val |-> 0]
        ELSE [ok |-> TRUE,
              val |-> IF signed /\ Head(s) = "-" THEN -DigitsVal(body, 0)
                      ELSE DigitsVal(body, 0)]

\* net/http parseRange for a header holding one range:
\* err is "none", "invalid" or "nooverlap"; has says whether a range came out
ParseRange(h, size) ==
    LET none    == [err |-> "none", has |-> FALSE, start |-> 0, length |-> 0]
        invalid == [none EXCEPT !.err = "invalid"]
        ra      == TrimPrefix(h, <<"b", "y", "t", "e", "s", "=">>)
        cut     == DashIndex(ra)
        first   == SubSeq(ra, 1, cut - 1)
        last    == SubSeq(ra, cut + 1, Len(ra))
        a       == ParseInt(first)
        b       == ParseInt(last)
    IN  IF h = <<>> THEN none
        ELSE IF ~HasPrefix(h, <<"b", "y", "t", "e", "s", "=">>) THEN invalid
        ELSE IF ra = <<>> THEN none
        ELSE IF cut = 0 THEN invalid
        ELSE IF first = <<>>
             THEN \* suffix range "-n": the last n bytes
                  IF last = <<>> \/ Head(last) = "-" \/ ~b.ok \/ b.val < 0 THEN invalid
                  ELSE LET n == IF b.val > size THEN size ELSE b.val
                       IN  [err |-> "none", has |-> TRUE, start |-> size - n, length |-> n]
        ELSE IF ~a.ok \/ a.val < 0 THEN invalid
        ELSE IF a.val >= size THEN [none EXCEPT !.err = "nooverlap"]
        ELSE IF last = <<>>
             THEN [err |-> "none", has |-> TRUE, start |-> a.val, length |-> size - a.val]
        ELSE IF ~b.ok \/ a.val > b.val THEN invalid
        ELSE LET e == IF b.val >= size THEN size - 1 ELSE b.val
             IN  [err |-> "none", has |-> TRUE, start |-> a.val, length |-> e - a.val + 1]

\* "bytes start-end/size"
ContentRange(start, end, size) ==
    <<"b", "y", "t", "e", "s", " ">> \o Itoa(start) \o <<"-">> \o Itoa(end)
        \o <<"/">> \o Itoa(size)

\* "bytes */size"
UnsatisfiedRange(size) == <<"b", "y", "t", "e", "s", " ", "*", "/">> \o Itoa(size)

\* the Content-Length a client sees: the server drops a negative one
WireLength(n) == IF n < 0 THEN -1 ELSE n

\* w is the response as the handler has prepared it (its headers)
ServeFile(w, r, data) ==
    LET size == Len(data)
        pr   == ParseRange(r.range, size)
        full == [w EXCEPT !.status = 200, !.ctype = "application/octet-stream",
                          !.clen = size, !.body = data]
    IN  IF pr.err = "invalid"
        THEN [HttpError(416) EXCEPT !.cdisp = w.cdisp, !.fname = w.fname]
        ELSE IF pr.err = "nooverlap" /\ size # 0
        THEN [HttpError(416) EXCEPT !.cdisp = w.cdisp, !.fname = w.fname,
                                    !.crange = UnsatisfiedRange(size)]
        ELSE IF pr.has /\ pr.length <= size
        THEN [full EXCEPT !.status = 206,
                          !.crange = ContentRange(pr.start, pr.start + pr.length - 1, size),
                          !.clen = pr.length,
                          !.body = SubSeq(data, pr.start + 1, pr.start + pr.length)]
        ELSE full

(***************************************************************************)
(* server/zip.go                                                           *)
(***************************************************************************)
ZipLocalHeader == -1

ZipDataEnd == -2

ZipCentralDir == -3

\* one archive member: its local header with the member name, its
\* (deflated) bytes, the end of its data
ZipMember(name, data) == <<ZipLocalHeader, name>> \o data \o <<ZipDataEnd>>

\* a walk that makes a member of a directory too
SkipsNothing(e) == FALSE

\* info.IsDir(): the walk function returns without writing anything
SkipsEntry(e) == e.dir

RECURSIVE ZipWalk(_, _, _)
\* walk the entries in order; stop at the first file that cannot be opened,
\* whose header CreateHeader has already written
ZipWalk(entries, out, count) ==
    IF entries = <<>> THEN [err |-> FALSE, out |-> out, count |-> count]
    ELSE LET e == Head(entries)
         IN  IF SkipsEntry(e)
             THEN ZipWalk(Tail(entries), out, count)
             ELSE IF ~e.readable
             THEN [err |-> TRUE, out |-> out \o ZipMember(e.name, <<>>), count |-> count + 1]
             ELSE ZipWalk(Tail(entries), out \o ZipMember(e.name, e.data), count + 1)

\* ZipDirectory: the bytes written to w and whether it returned an error;
\* the deferred zw.Close() writes the central directory on both paths
ZipDirectory(entries) ==
    LET walk == ZipWalk(entries, <<>>, 0)
    IN  [err |-> walk.err, out |-> walk.out \o <<ZipCentralDir, walk.count>>]

\* the walk of a directory whose listing cannot be read: the walk function
\* is called for the root, then again with the read error, which it returns;
\* the deferred zw.Close() writes the central directory of no member
ZipUnreadable == [err |-> TRUE, out |-> <<ZipCentralDir, 0>>]

(***************************************************************************)
(* Server.handleDownload                                                   *)
(***************************************************************************)
\* os.Stat(s.SrcPath) returns an error
StatFails(s) == s.kind = "none"

\* fi.IsDir()
IsDir(s) == s.kind \in {"dir", "closeddir"}
\* f.Seek(start, 0) on the opened source file
SeekOK(start) == start >= 0 /\ start <= MaxSeek

\* a token check that accepts every path beginning with the token
TokenPrefixMatches(p) == HasPrefix(p, token)

\* p != s.Token, negated
TokenMatches(p) == p = token

\* a ranged body that begins one byte early
RangedBodyEarly(data, start) == SubSeq(data, start, Len(data))

\* a ranged body that begins at the first byte whatever the offset
RangedBodyWhole(data, start) == data

\* io.Copy(w, f) after f.Seek(start, 0): the bytes from offset start on
RangedBody(data, start) == SubSeq(data, start + 1, Len(data))

\* a text answer that honours Range the way the file answer does
ServeTextRanged(r) ==
    LET whole == [Response(200, textContent) EXCEPT
                      !.ctype = "text/plain; charset=utf-8",
                      !.clen = Len(textContent),
                      !.cache = "no-store, no-cache, must-revalidate, max-age=0",
                      !.pragma = "no-cache", !.expires = "0"]
        scan == ScanIntDash(TrimPrefix(r.range, <<"b", "y", "t", "e", "s", "=">>))
    IN IF HasPrefix(r.range, <<"b", "y", "t", "e", "s", "=">>) /\ scan.ok /\ scan.val > 0
           THEN [whole EXCEPT !.status = 206,
                              !.clen = WireLength(Len(textContent) - scan.val),
                              !.body = RangedBody(textContent, scan.val)]
           ELSE whole

\* the text branch: the headers, then w.Write([]byte(s.TextContent))
ServeText(r) ==
    [Response(200, textContent) EXCEPT
         !.ctype = "text/plain; charset=utf-8",
         !.clen = Len(textContent),
         !.cache = "no-store, no-cache, must-revalidate, max-age=0",
         !.pragma = "no-cache", !.expires = "0"]

HandleDownload(r) ==
    LET p == TrimPrefix(r.path, PathPrefix)
    IN  IF ~TokenMatches(p) THEN HttpError(403)
        ELSE IF textContent # <<>> THEN ServeText(r)
        ELSE IF StatFails(src) THEN HttpError(404)
        ELSE IF IsDir(src)
        THEN LET z == IF src.kind = "closeddir" THEN ZipUnreadable
                      ELSE ZipDirectory(src.entries)
             IN  \* the archive is on the wire with its 200 before http.Error
                 \* runs, so the error adds only its line to the body
                 [Response(200, IF z.err THEN z.out \o <<-500>> ELSE z.out) EXCEPT
                      !.ctype = "application/zip",
                      !.cdisp = "attachment", !.fname = "src.zip"]
        ELSE IF src.kind = "closedfile"
        THEN \* os.Open fails after Content-Disposition was set
             [HttpError(404) EXCEPT !.cdisp = "attachment", !.fname = "src"]
        ELSE LET w     == [Response(0, <<>>) EXCEPT !.cdisp = "attachment", !.fname = "src"]
                 size  == Len(src.data)
                 spec  == TrimPrefix(r.range, <<"b", "y", "t", "e", "s", "=">>)
                 scan  == ScanIntDash(spec)
                 start == scan.val
             IN  IF /\ r.range # <<>>
                    /\ HasPrefix(r.range, <<"b", "y", "t", "e", "s", "=">>)
                    /\ scan.ok /\ start > 0
                    /\ SeekOK(start)
                 THEN [w EXCEPT !.status = 206,
                                !.crange = ContentRange(start, size - 1, size),
                                !.clen = WireLength(size - start),
                                !.body = RangedBody(src.data, start)]
                 ELSE ServeFile(w, r, src.data)

(***************************************************************************)
(* The download endpoint answering one request.                            *)
(***************************************************************************)
PathSuffixes == SeqsUpTo(TokenChars, TokenLen + 1)

Requests == [path : {PathPrefix \o p : p \in PathSuffixes}, range : RangeHeaders]

NoRequest == [path |-> <<>>, range |-> <<>>]

InitSession ==
    /\ hostMode = FALSE
    /\ token \in Tokens
    /\ textContent \in SeqsUpTo(Byte, MaxSize)
    /\ src \in Sources
    /\ textContent # <<>> => src = NoSource

\* a connection no download handler has served yet: the request, the
\* response as the handler produces it, the position of the handler's read
\* of it, and the bytes the requester has got
IdleDownload ==
    [pc |-> "idle", req |-> NoRequest, resp |-> NoResponse, pos |-> 0, got |-> <<>>]

\* no archive is being written: the entries the walk has yet to visit
\* (rest), the source files that are open (open), the file being copied
\* (cur) and how much of it has been (n), the bytes written to w (out), the
\* members begun (count), the error the walk returned (err: "", "open",
\* "read" or "walk")
IdleZip ==
    [pc |-> "idle", rest |-> <<>>, open |-> {}, cur |-> RegularFile(0, <<>>, TRUE),
     n |-> 0, out |-> <<>>, count |-> 0, err |-> ""]

InitExchange ==
    /\ req = NoRequest
    /\ resp = NoResponse
    /\ lastStatus = 0
    /\ down = [c \in 1..MaxConns |-> IdleDownload]
    /\ zw = IdleZip

NoFile == [exists |-> FALSE, data |-> <<>>]

File(d) == [exists |-> TRUE, data |-> d]

NoResult == [path |-> "", err |-> ""]

InitClient ==
    /\ cpc = "idle"
    /\ url = <<>>
    /\ force = FALSE
    /\ dest = NoFile
    /\ startByte = 0
    /\ existingSize = 0
    /\ totalSize = 0
    /\ issued = <<>>
    /\ dl = NoResponse
    /\ copied = 0
    /\ result = NoResult
    /\ stdout = <<>>
    /\ pread = -1

Conns == 1..MaxConns

NoUpResponse == [status |-> 0, msg |-> "", filename |-> <<>>, size |-> 0]

\* a handler's locals: the request it serves (method, target, xname, body,
\* clen, form, parts) and the path that took it (kind), the files of the
\* upload directory when the request arrived (before), how many requests
\* had been answered by then (since), where it stands, and whether it
\* holds a buffer of bufferPool (buf)
IdleHandler ==
    [pc |-> "idle", kind |-> "", method |-> "", target |-> <<>>,
     xname |-> <<>>, body |-> <<>>, clen |-> -1, form |-> FALSE,
     parts |-> <<>>, before |-> [p \in {} |-> <<>>], since |-> 0,
     name |-> <<>>, outPath |-> <<>>, ino |-> -1, got |-> 0, rd |-> 0,
     idx |-> 0, saved |-> <<>>, buf |-> FALSE, resp |-> NoUpResponse]

\* no host session
InitNoHost ==
    /\ uploadDir = <<>>
    /\ dirs = {<<".">>}
    /\ names = [p \in {} |-> <<>>]
    /\ inodes = [p \in {} |-> <<>>]
    /\ up = [c \in Conns |-> IdleHandler]
    /\ nreq = 0
    /\ log = <<>>

Init ==
    /\ InitSession
    /\ InitExchange
    /\ InitClient
    /\ InitNoHost

\* a handler that builds a directory's archive in a file before it sends it
DiskAfterSpooledDownload(r) ==
    LET spool == <<"s", "r", "c", ".", "z", "i", "p">>
    IN IF TokenMatches(TrimPrefix(r.path, PathPrefix)) /\ textContent = <<>> /\ src.kind = "dir"
       THEN [src |-> src, dirs |-> dirs,
             names |-> [q \in DOMAIN names \cup {spool} |->
                           IF q = spool THEN 1 ELSE names[q]],
             inodes |-> [i \in DOMAIN inodes \cup {1} |->
                            IF i = 1 THEN ZipDirectory(src.entries).out ELSE inodes[i]]]
       ELSE [src |-> src, dirs |-> dirs, names |-> names, inodes |-> inodes]

\* the server's disk after handleDownload has served r: the handler calls
\* os.Stat and os.Open on the source and ZipDirectory writes to w, so the
\* source, the directories and the files are what they were
DiskAfterDownload(r) ==
    [src |-> src, dirs |-> dirs, names |-> names, inodes |-> inodes]

\* a mux on which both endpoints are registered in either mode
RegisteredAlways(prefix) == TRUE

\* Server.Start registers one pattern on its mux: the upload prefix in host
\* mode, the download prefix otherwise
Registered(prefix) == prefix = (IF hostMode THEN UploadPathPrefix ELSE PathPrefix)

\* a request arrives on an idle connection and is answered
Download ==
    /\ Registered(PathPrefix)
    /\ req = NoRequest
    /\ \E r \in Requests :
        /\ req' = r
        /\ resp' = HandleDownload(r)
        /\ LET disk == DiskAfterDownload(r)
           IN /\ src' = disk.src
              /\ dirs' = disk.dirs
              /\ names' = disk.names
              /\ inodes' = disk.inodes
    /\ UNCHANGED <<token, textContent, hostMode, lastStatus, down, zw, clientVars,
                   uploadDir, up, nreq, log>>

\* the handler has returned and the response has been read: the connection
\* is ready for its next request
EndExchange ==
    /\ req # NoRequest
    /\ req' = NoRequest
    /\ resp' = NoResponse
    /\ lastStatus' = resp.status
    /\ UNCHANGED <<sessionVars, down, zw, clientVars, hostVars>>

Next == Download \/ EndExchange

Spec == Init /\ [][Next]_vars

(***************************************************************************)
(* client.Receive                                                          *)
(***************************************************************************)
\* the token of the session the client talks to
ClientToken == [i \in 1..TokenLen |-> "a"]

\* urls a caller may pass: the one Start returned, and one with another token
Urls == {PathPrefix \o ClientToken, PathPrefix \o [i \in 1..TokenLen |-> "b"]}

Get(u) == [path |-> u, range |-> NoRange]

GetRange(u, n) == [path |-> u, range |-> BytesFrom(n)]

\* a test for text that wants the bare media type
IsTextContentExact(r) == r.ctype = "text/plain" /\ r.cdisp = ""

\* strings.HasPrefix(contentType, "text/plain") && disposition == ""
IsTextContent(r) == r.ctype = "text/plain; charset=utf-8" /\ r.cdisp = ""

\* a resume test that forgets to compare with the advertised total
IsResumableAnyLength(frc, size, total) == ~frc /\ size > 0

\* a resume test that takes an empty destination for a partial one
IsResumableOrEmpty(frc, size, total) == ~frc /\ size >= 0 /\ size < total

\* a resume test that does not look at force
IsResumableForced(frc, size, total) == size > 0 /\ size < total

\* !force && existingSize > 0 && existingSize < totalSize
IsResumable(frc, size, total) == ~frc /\ size > 0 /\ size < total

\* a resume offset one byte too far
ResumeOffsetLate(size) == size + 1

\* startByte = existingSize
ResumeOffset(size) == size

\* a creation that leaves an existing file's bytes in place
CreateKeeps(d) == IF d.exists THEN d ELSE File(<<>>)

\* os.Create(outputPath): the file exists and is empty
Create(d) == File(<<>>)

\* an acceptance test that lets a 404 through
AcceptedStatusOr404(code) == code \in {200, 206, 404}

\* resp.StatusCode != http.StatusOK && != http.StatusPartialContent, negated
AcceptedStatus(code) == code \in {200, 206}

\* fmt.Errorf("http status %d", resp.StatusCode)
StatusError(code) == "http status " \o ToString(code)

Return(path, err) ==
    /\ cpc' = "done"
    /\ result' = [path |-> path, err |-> err]

\* a Receive call begins, in a fresh run of "warp receive" (receiveCmd): it
\* is made with some url and some force flag, and nothing is on stdout yet
RecvCall ==
    /\ cpc \in {"idle", "done"}
    /\ \E u \in Urls, f \in BOOLEAN :
        /\ url' = u
        /\ force' = f
    /\ cpc' = "probe"
    /\ startByte' = 0
    /\ existingSize' = 0
    /\ totalSize' = 0
    /\ issued' = <<>>
    /\ dl' = NoResponse
    /\ copied' = 0
    /\ result' = NoResult
    /\ stdout' = <<>>
    /\ pread' = -1
    /\ UNCHANGED <<hostVars, sessionVars, exchangeVars, dest>>

\* a destination check that creates the file before it looks at force
DestAfterLateRefusal(d) == File(<<>>)

\* the refusal returns after os.Stat alone: no os.OpenFile, no os.Create
DestAfterRefusal(d) == d

\* the initial request, up to resp.Body.Close() (lines 23-54)
RecvProbe ==
    /\ cpc = "probe"
    /\ issued' = Append(issued, Get(url))
    /\ LET r == HandleDownload(Get(url))
       IN  IF ~AcceptedStatus(r.status)
           THEN /\ Return("", StatusError(r.status))
                /\ UNCHANGED <<stdout, totalSize>>
           ELSE IF IsTextContent(r)
           THEN /\ stdout' = stdout \o r.body
                /\ Return("(stdout)", "")
                /\ UNCHANGED totalSize
           ELSE /\ totalSize' = r.clen
                /\ cpc' = "stat"
                /\ UNCHANGED <<stdout, result>>
    /\ UNCHANGED <<hostVars, sessionVars, exchangeVars, pread, url, force, dest, startByte,
                   existingSize, dl, copied>>

\* io.Copy(os.Stdout, resp.Body) fails part-way: what was copied is on
\* stdout and the call returns the error
RecvTextFail ==
    /\ cpc = "probe"
    /\ LET r == HandleDownload(Get(url))
       IN /\ AcceptedStatus(r.status)
          /\ IsTextContent(r)
          /\ \E n \in 0..(Len(r.body) - 1) : stdout' = stdout \o SubSeq(r.body, 1, n)
    /\ issued' = Append(issued, Get(url))
    /\ Return("", "copy")
    /\ UNCHANGED <<hostVars, sessionVars, exchangeVars, pread, url, force, dest, startByte,
                   existingSize, totalSize, dl, copied>>

\* http.Get fails: the call returns the error
RecvProbeFail ==
    /\ cpc = "probe"
    /\ issued' = Append(issued, Get(url))
    /\ Return("", "network")
    /\ UNCHANGED <<hostVars, sessionVars, exchangeVars, pread, url, force, dest, startByte,
                   existingSize, totalSize, dl, copied, stdout>>

\* the check of the destination and the opening of f (lines 56-77)
RecvOpen ==
    /\ cpc = "stat"
    /\ IF dest.exists
       THEN /\ existingSize' = Len(dest.data)
            /\ IF IsResumable(force, Len(dest.data), totalSize)
               THEN \* resume: O_WRONLY|O_APPEND
                    /\ startByte' = ResumeOffset(Len(dest.data))
                    /\ cpc' = "request"
                    /\ UNCHANGED <<dest, result>>
               ELSE IF ~force
               THEN /\ Return("", "destination exists")
                    /\ dest' = DestAfterRefusal(dest)
                    /\ UNCHANGED startByte
               ELSE \* os.Create truncates
                    /\ dest' = Create(dest)
                    /\ cpc' = "request"
                    /\ UNCHANGED <<startByte, result>>
       ELSE /\ dest' = Create(dest)
            /\ cpc' = "request"
            /\ UNCHANGED <<existingSize, startByte, result>>
    /\ UNCHANGED <<hostVars, sessionVars, exchangeVars, pread, url, force, totalSize, issued, dl,
                   copied, stdout>>

\* a progress counter that starts at zero whatever the offset
ProgressStartZero(start) == 0

\* &progressReader{..., read: startByte, ...}
ProgressStart(start) == start

\* the download request and, with a progress sink, the progressReader put
\* around its body (lines 79-111)
RecvRequest ==
    /\ cpc = "request"
    /\ IF startByte > 0
       THEN LET r == HandleDownload(GetRange(url, startByte))
            IN  IF r.status # 206
                THEN \* no resume: recreate the file and ask for all of it
                     /\ dest' = Create(dest)
                     /\ startByte' = 0
                     /\ issued' = issued \o <<GetRange(url, startByte), Get(url)>>
                     /\ dl' = HandleDownload(Get(url))
                ELSE /\ issued' = Append(issued, GetRange(url, startByte))
                     /\ dl' = r
                     /\ UNCHANGED <<dest, startByte>>
       ELSE /\ issued' = Append(issued, Get(url))
            /\ dl' = HandleDownload(Get(url))
            /\ UNCHANGED <<dest, startByte>>
    /\ copied' = 0
    /\ \E sink \in BOOLEAN : pread' = IF sink THEN ProgressStart(startByte') ELSE -1
    /\ cpc' = "copy"
    /\ UNCHANGED <<hostVars, sessionVars, exchangeVars, url, force, existingSize, totalSize,
                   result, stdout>>

\* a download request fails on the network: the call returns the error
RecvRequestFail ==
    /\ cpc = "request"
    /\ issued' = Append(issued, IF startByte > 0 THEN GetRange(url, startByte) ELSE Get(url))
    /\ Return("", "network")
    /\ UNCHANGED <<hostVars, sessionVars, exchangeVars, pread, url, force, dest, startByte,
                   existingSize, totalSize, dl, copied, stdout>>

\* io.Copy(f, src) moves the next byte: f is written at its end, both when
\* opened for append and when freshly created; a progressReader counts it
RecvCopy ==
    /\ cpc = "copy"
    /\ copied < Len(dl.body)
    /\ dest' = File(Append(dest.data, dl.body[copied + 1]))
    /\ copied' = copied + 1
    /\ pread' = IF pread >= 0 THEN pread + 1 ELSE pread
    /\ UNCHANGED <<hostVars, sessionVars, exchangeVars, cpc, url, force, startByte,
                   existingSize, totalSize, issued, dl, result, stdout>>

\* the body is at its end: Receive returns outputPath
RecvDone ==
    /\ cpc = "copy"
    /\ copied = Len(dl.body)
    /\ Return("out", "")
    /\ UNCHANGED <<hostVars, sessionVars, exchangeVars, pread, url, force, dest, startByte,
                   existingSize, totalSize, issued, dl, copied, stdout>>

\* the transfer is cut (connection lost, client killed) before the body's end
RecvCopyFail ==
    /\ cpc = "copy"
    /\ copied < Len(dl.body)
    /\ Return("", "copy")
    /\ UNCHANGED <<hostVars, sessionVars, exchangeVars, pread, url, force, dest, startByte,
                   existingSize, totalSize, issued, dl, copied, stdout>>

NextReceive ==
    \/ RecvCall
    \/ RecvProbe
    \/ RecvTextFail
    \/ RecvProbeFail
    \/ RecvOpen
    \/ RecvRequest
    \/ RecvRequestFail
    \/ RecvCopy
    \/ RecvDone
    \/ RecvCopyFail

\* the destination before the first call: absent, or any file
InitReceive ==
    /\ hostMode = FALSE
    /\ token = ClientToken
    /\ textContent \in SeqsUpTo(Byte, MaxSize)
    /\ src \in Sources
    /\ textContent # <<>> => src = NoSource
    /\ InitExchange
    /\ InitClient!1 /\ InitClient!2 /\ InitClient!3
    /\ dest \in {NoFile} \cup {File(d) : d \in SeqsUpTo(Byte, MaxSize + 1)}
    /\ startByte = 0 /\ existingSize = 0 /\ totalSize = 0
    /\ issued = <<>> /\ dl = NoResponse /\ copied = 0
    /\ result = NoResult /\ stdout = <<>> /\ pread = -1
    /\ InitNoHost

SpecReceive == InitReceive /\ [][NextReceive]_vars

\* the destination does not exist before the first call: every partial file
\* is what an interrupted call left
InitResume ==
    /\ InitReceive
    /\ dest = NoFile

SpecResume == InitResume /\ [][NextReceive]_vars

\* what is at Server.SrcPath is replaced while the session is up
\* (handleDownload looks at the path anew for every request)
ChangedSources ==
    {NoSource, ClosedFile, ClosedDir, FileSource(<<2>>),
     DirSource(<<RegularFile(1, <<1>>, TRUE)>>)}

SourceChange ==
    /\ textContent = <<>>
    /\ src' \in ChangedSources \ {src}
    /\ UNCHANGED <<token, textContent, hostMode, exchangeVars, clientVars, hostVars>>

\* the ranged request was not answered 206 and the request for the whole
\* source that follows it fails on the network: the destination has been
\* recreated, the call returns the error (lines 89-98)
RecvRefetchFail ==
    /\ cpc = "request"
    /\ startByte > 0
    /\ HandleDownload(GetRange(url, startByte)).status # 206
    /\ dest' = Create(dest)
    /\ startByte' = 0
    /\ issued' = issued \o <<GetRange(url, startByte), Get(url)>>
    /\ Return("", "network")
    /\ UNCHANGED <<hostVars, sessionVars, exchangeVars, pread, url, force, existingSize,
                   totalSize, dl, copied, stdout>>

NextReceiveLive ==
    \/ NextReceive
    \/ SourceChange
    \/ RecvRefetchFail

\* calls of Receive against a session whose source changes under it
SpecReceiveLive == InitReceive /\ [][NextReceiveLive]_vars

\* the download endpoint of a session whose source comes and goes between
\* requests
NextLive ==
    \/ Download
    \/ EndExchange
    \/ SourceChange

SpecLive == Init /\ [][NextLive]_vars

(***************************************************************************)
(* File names and paths of the upload side (path/filepath, net/url).       *)
(***************************************************************************)
\* the position of the last c in s, 0 when there is none
LastIndex(s, c) ==
    IF \E i \in 1..Len(s) : s[i] = c
    THEN CHOOSE i \in 1..Len(s) : s[i] = c /\ \A j \in (i + 1)..Len(s) : s[j] # c
    ELSE 0

RECURSIVE StripTrailingSlashes(_)
StripTrailingSlashes(s) ==
    IF s # <<>> /\ s[Len(s)] = "/"
    THEN StripTrailingSlashes(SubSeq(s, 1, Len(s) - 1))
    ELSE s

\* a Base that keeps the directory part
BaseKeepsDirs(path) == IF path = <<>> THEN <<".">> ELSE path

\* filepath.Base
Base(path) ==
    IF path = <<>> THEN <<".">>
    ELSE LET t == StripTrailingSlashes(path)
             e == SubSeq(t, LastIndex(t, "/") + 1, Len(t))
         IN  IF e = <<>> THEN <<"/">> ELSE e

\* filepath.Ext: from the last dot of the last element on
Ext(path) ==
    LET e == SubSeq(path, LastIndex(path, "/") + 1, Len(path))
        d == LastIndex(e, ".")
    IN  IF d = 0 THEN <<>> ELSE SubSeq(e, d, Len(e))

\* strings.TrimSuffix
TrimSuffix(s, suffix) ==
    IF Len(s) >= Len(suffix) /\ SubSeq(s, Len(s) - Len(suffix) + 1, Len(s)) = suffix
    THEN SubSeq(s, 1, Len(s) - Len(suffix))
    ELSE s

\* the elements of a path between its slashes
RECURSIVE SplitPath(_)
SplitPath(s) ==
    LET cut == IF \E i \in 1..Len(s) : s[i] = "/"
               THEN CHOOSE i \in 1..Len(s) : s[i] = "/" /\ \A j \in 1..(i - 1) : s[j] # "/"
               ELSE 0
    IN  IF cut = 0 THEN <<s>>
        ELSE <<SubSeq(s, 1, cut - 1)>> \o SplitPath(SubSeq(s, cut + 1, Len(s)))

RECURSIVE CleanElems(_, _, _)
\* filepath.Clean's pass over the elements: empty and "." elements vanish,
\* ".." removes the element before it
CleanElems(elems, kept, rooted) ==
    IF elems = <<>> THEN kept
    ELSE LET e == Head(elems)
         IN  IF e = <<>> \/ e = <<".">> THEN CleanElems(Tail(elems), kept, rooted)
             ELSE IF e = <<".", ".">>
             THEN IF kept # <<>> /\ kept[Len(kept)] # <<".", ".">>
                  THEN CleanElems(Tail(elems), SubSeq(kept, 1, Len(kept) - 1), rooted)
                  ELSE IF rooted THEN CleanElems(Tail(elems), kept, rooted)
                  ELSE CleanElems(Tail(elems), Append(kept, e), rooted)
             ELSE CleanElems(Tail(elems), Append(kept, e), rooted)

RECURSIVE JoinElems(_)
JoinElems(elems) ==
    IF elems = <<>> THEN <<>>
    ELSE IF Len(elems) = 1 THEN elems[1]
    ELSE elems[1] \o <<"/">> \o JoinElems(Tail(elems))

\* filepath.Clean
Clean(path) ==
    LET rooted == path # <<>> /\ path[1] = "/"
        body   == JoinElems(CleanElems(SplitPath(path), <<>>, rooted))
    IN  IF rooted THEN <<"/">> \o body
        ELSE IF body = <<>> THEN <<".">>
        ELSE body

\* filepath.Join(dir, name)
Join(dir, name) ==
    IF dir = <<>> /\ name = <<>> THEN <<>>
    ELSE IF dir = <<>> THEN Clean(name)
    ELSE IF name = <<>> THEN Clean(dir)
    ELSE Clean(dir \o <<"/">> \o name)

\* filepath.Dir: the directory a cleaned path lies in
Dir(path) ==
    LET cut == LastIndex(path, "/")
    IN  IF cut = 0 THEN <<".">>
        ELSE IF cut = 1 THEN <<"/">>
        ELSE Clean(SubSeq(path, 1, cut - 1))

HexDigits == <<"0", "1", "2", "3", "4", "5", "6", "7", "8", "9", "A", "B", "C", "D", "E", "F">>

IsHex(c) == \E i \in 1..16 : HexDigits[i] = c

HexVal(c) == (CHOOSE i \in 1..16 : HexDigits[i] = c) - 1

\* the characters of the byte values that occur in the model's names
CharOf(b) ==
    CASE b = 32 -> " "
      [] b = 37 -> "%"
      [] b = 46 -> "."
      [] b = 47 -> "/"
      [] OTHER  -> "?"

RECURSIVE Unescape(_)
\* the decoded text of url.QueryUnescape; the caller checks ValidEscapes
Unescape(s) ==
    IF s = <<>> THEN <<>>
    ELSE IF Head(s) = "%"
    THEN <<CharOf(16 * HexVal(s[2]) + HexVal(s[3]))>> \o Unescape(SubSeq(s, 4, Len(s)))
    ELSE IF Head(s) = "+" THEN <<" ">> \o Unescape(Tail(s))
    ELSE <<Head(s)>> \o Unescape(Tail(s))

\* every "%" is followed by two hex digits
ValidEscapes(s) ==
    \A i \in 1..Len(s) :
        s[i] = "%" => (i + 2 <= Len(s) /\ IsHex(s[i + 1]) /\ IsHex(s[i + 2]))

\* url.QueryUnescape
QueryUnescape(s) ==
    IF ValidEscapes(s) THEN [ok |-> TRUE, val |-> Unescape(s)]
    ELSE [ok |-> FALSE, val |-> <<>>]

(***************************************************************************)
(* The host session's filesystem.  A path names an inode and the inode     *)
(* holds the content, so that a file removed or truncated through one      *)
(* handle is seen as such through every other.                             *)
(***************************************************************************)
EmptyMap == [p \in {} |-> <<>>]

\* the upload directory the handlers use
Dest == IF uploadDir = <<>> THEN <<".">> ELSE uploadDir

\* os.Stat(path) does not report IsNotExist
Exists(path) == path \in dirs \/ path \in DOMAIN names

\* the regular files that exist, with their content
Listing == [p \in DOMAIN names |-> inodes[names[p]]]

\* os.MkdirAll(d): d is one element below the working directory; a regular
\* file of that name is in the way
MkdirAllFails(d) == d \in DOMAIN names

NewIno == CHOOSE i \in 1..(Cardinality(DOMAIN inodes) + 1) : i \notin DOMAIN inodes

\* an open without O_TRUNC: a file that exists keeps its bytes
OpenFileNoTrunc(path) ==
    IF path \in dirs THEN [err |-> "EISDIR", ino |-> -1, names |-> names, inodes |-> inodes]
    ELSE IF Dir(path) \notin dirs THEN [err |-> "ENOENT", ino |-> -1, names |-> names, inodes |-> inodes]
    ELSE LET ino == IF path \in DOMAIN names THEN names[path] ELSE NewIno
         IN [err |-> "", ino |-> ino,
             names |-> [p \in DOMAIN names \cup {path} |-> IF p = path THEN ino ELSE names[p]],
             inodes |-> [i \in DOMAIN inodes \cup {ino} |->
                            IF i \in DOMAIN inodes THEN inodes[i] ELSE <<>>]]

\* os.OpenFile(path, O_CREATE|O_WRONLY|O_TRUNC): the error, or "" and the
\* filesystem with the file created or cut to length 0
OpenFile(path) ==
    IF path \in dirs THEN [err |-> "EISDIR", ino |-> -1, names |-> names, inodes |-> inodes]
    ELSE IF Dir(path) \notin dirs THEN [err |-> "ENOENT", ino |-> -1, names |-> names, inodes |-> inodes]
    ELSE LET ino == IF path \in DOMAIN names THEN names[path] ELSE NewIno
         IN [err |-> "", ino |-> ino,
             names |-> [p \in DOMAIN names \cup {path} |-> IF p = path THEN ino ELSE names[p]],
             inodes |-> [i \in DOMAIN inodes \cup {ino} |-> IF i = ino THEN <<>> ELSE inodes[i]]]

Zeros(n) == [i \in 1..n |-> 0]

\* a pre-sizing that makes the file one byte longer than asked
ResizeOneMore(data, n) ==
    IF n + 1 <= Len(data) THEN SubSeq(data, 1, n + 1)
    ELSE data \o Zeros(n + 1 - Len(data))

\* f.Truncate(n)
Resize(data, n) ==
    IF n <= Len(data) THEN SubSeq(data, 1, n) ELSE data \o Zeros(n - Len(data))

\* a write of one byte at offset off
WriteAt(data, off, b) ==
    IF off < Len(data) THEN [data EXCEPT ![off + 1] = b]
    ELSE data \o Zeros(off - Len(data)) \o <<b>>

\* os.Remove(path), its error ignored
Remove(nm, path) == [p \in DOMAIN nm \ {path} |-> nm[p]]

\* the next state of the filesystem and the handlers; an inode that is
\* neither linked nor held open is gone
Commit(nm, ino, u) ==
    LET live == {nm[p] : p \in DOMAIN nm} \cup {u[c].ino : c \in Conns}
    IN /\ names' = nm
       /\ up' = u
       /\ inodes' = [i \in DOMAIN ino \cap live |-> ino[i]]
       /\ log' = log

(***************************************************************************)
(* findUniqueFilename                                                      *)
(***************************************************************************)
\* fmt.Sprintf("%s (%d)%s", base, i, ext)
Numbered(base, i, ext) == base \o <<" ", "(">> \o Itoa(i) \o <<")">> \o ext

\* fmt.Sprintf("%s_%d%s", base, now, ext)
Stamped(base, now, ext) == base \o <<"_">> \o Itoa(now) \o ext

\* the loop over i, and the fallback after it
RECURSIVE ProbeNumbered(_, _, _, _, _)
ProbeNumbered(dir, base, ext, i, now) ==
    IF i >= CollisionLimit THEN Join(dir, Stamped(base, now, ext))
    ELSE LET path == Join(dir, Numbered(base, i, ext))
         IN IF ~Exists(path) THEN path
            ELSE ProbeNumbered(dir, base, ext, i + 1, now)

\* now is the reading of time.Now().UnixNano() the fallback would take
FindUniqueFilename(dir, name, now) ==
    LET ext == Ext(name)
        base == TrimSuffix(name, ext)
        path == Join(dir, name)
    IN IF ~Exists(path) THEN path
       ELSE ProbeNumbered(dir, base, ext, 1, now)

Clock == 1..MaxClock

(***************************************************************************)
(* handleUpload and handleRawUpload.  A handler runs on its connection's   *)
(* goroutine; its steps are the points where another handler can see or    *)
(* change the filesystem: the probe for a free name, the open, the         *)
(* pre-sizing, each write, and its return.                                 *)
(***************************************************************************)
UpResponse(status, msg) ==
    [status |-> status, msg |-> msg, filename |-> <<>>, size |-> 0]

\* bufferPool.Get(): the handler has a buffer of the pool
GetBuffer(h) == [h EXCEPT !.buf = TRUE]

\* a handler that keeps its buffer
KeepBuffer(h) == h

\* bufferPool.Put(bufPtr): the buffer is back in the pool
PutBuffer(h) == [h EXCEPT !.buf = FALSE]

\* the handler returns: its file is closed, the response is complete
Finished(h, answer) ==
    [h EXCEPT !.pc = "done", !.ino = -1, !.resp = answer]

\* what the client of a finished request knows of it
LogEntry(h) ==
    [kind |-> h.kind, method |-> h.method, target |-> h.target,
     xname |-> h.xname, body |-> h.body, clen |-> h.clen, form |-> h.form,
     parts |-> h.parts, path |-> h.outPath, msg |-> h.resp.msg,
     size |-> h.resp.size, since |-> h.since,
     saved |-> h.saved, status |-> h.resp.status, filename |-> h.resp.filename]

Respond(c, h, nm, answer) ==
    LET u == [up EXCEPT ![c] = Finished(h, answer)]
        live == {nm[p] : p \in DOMAIN nm} \cup {u[d].ino : d \in Conns}
    IN /\ names' = nm
       /\ up' = u
       /\ inodes' = [i \in DOMAIN inodes \cap live |-> inodes[i]]
       /\ log' = Append(log, LogEntry(u[c]))

\* a token check that lets every GET through to the form
UploadAuthorizedOrGet(r) ==
    r.method = "GET" \/ TrimPrefix(r.path, UploadPathPrefix) = token

\* p != s.Token, negated
UploadAuthorized(r) == TrimPrefix(r.path, UploadPathPrefix) = token

\* a method check that takes PUT for an upload as well
MethodAllowedOrPut(method) == method \in {"POST", "PUT"}

\* r.Method != http.MethodPost, negated
MethodAllowed(method) == method = "POST"

\* a name check that forgets ".."
InvalidNameDotOnly(name) == name = <<".">> \/ name = <<>>

\* name == "." || name == ".." || name == ""
InvalidName(name) == name = <<".">> \/ name = <<".", ".">> \/ name = <<>>

\* the handler up to the first point where it touches a file
UploadStart(c, r) ==
    /\ Registered(UploadPathPrefix)
    /\ up[c].pc \in {"idle", "done"}
    /\ nreq' = nreq + 1
    /\ LET clen == IF r.chunked THEN -1 ELSE Len(r.body)
           h0 == [IdleHandler EXCEPT !.method = r.method, !.target = r.path,
                                     !.xname = r.xname, !.body = r.body,
                                     !.form = r.form, !.parts = r.parts,
                                     !.before = Listing, !.since = Len(log)]
           raw == [h0 EXCEPT !.kind = "raw", !.clen = clen]
           multi == [h0 EXCEPT !.kind = "multi"]
           unesc == QueryUnescape(r.xname)
           name == Base(unesc.val)
           reply(h, answer) == /\ Respond(c, h, names, answer)
                               /\ dirs' = dirs
       IN IF ~UploadAuthorized(r)
              THEN reply(h0, UpResponse(403, "forbidden"))
          ELSE IF r.method = "GET"
              THEN reply(h0, UpResponse(200, "uploadPageHTML"))
          ELSE IF ~MethodAllowed(r.method)
              THEN reply(h0, UpResponse(405, "method not allowed"))
          ELSE IF r.xname # <<>> THEN
              \* handleRawUpload
              IF clen > MaxUploadSize
                  THEN reply(raw, UpResponse(413, "file too large"))
              ELSE IF ~unesc.ok
                  THEN reply(raw, UpResponse(400, "invalid filename"))
              ELSE IF InvalidName(name)
                  THEN reply(raw, UpResponse(400, "invalid filename"))
              ELSE IF MkdirAllFails(Dest)
                  THEN reply(raw, UpResponse(500, "server error"))
              ELSE /\ dirs' = dirs \cup {Dest}
                   /\ Commit(names, inodes,
                             [up EXCEPT ![c] = [raw EXCEPT !.pc = "probe", !.name = name,
                                                           !.clen = clen]])
          ELSE
              \* the multipart path
              IF MkdirAllFails(Dest)
                  THEN reply(multi, UpResponse(500, "server error"))
              ELSE /\ dirs' = dirs \cup {Dest}
                   /\ IF ~r.form
                          THEN Respond(c, multi, names, UpResponse(400, "invalid form"))
                          ELSE Commit(names, inodes,
                                      [up EXCEPT ![c] = [multi EXCEPT !.pc = "part", !.idx = 1]])
    /\ UNCHANGED <<sessionVars, exchangeVars, clientVars, uploadDir>>

\* outPath := findUniqueFilename(dest, name)
RawProbe(c) ==
    /\ up[c].pc = "probe"
    /\ \E now \in Clock :
           up' = [up EXCEPT ![c].pc = "open",
                            ![c].outPath = FindUniqueFilename(Dest, up[c].name, now)]
    /\ UNCHANGED <<sessionVars, exchangeVars, clientVars, uploadDir, dirs, names, inodes,
                   nreq, log>>

\* os.OpenFile(outPath, O_CREATE|O_WRONLY|O_TRUNC)
RawOpen(c) ==
    /\ up[c].pc = "open"
    /\ LET o == OpenFile(up[c].outPath)
       IN IF o.err # ""
              THEN Respond(c, up[c], names, UpResponse(500, "disk error"))
              ELSE Commit(o.names, o.inodes,
                          [up EXCEPT ![c] =
                              IF up[c].clen > 0
                              THEN [up[c] EXCEPT !.pc = "presize", !.ino = o.ino]
                              ELSE GetBuffer([up[c] EXCEPT !.pc = "copy", !.ino = o.ino])])
    /\ UNCHANGED <<sessionVars, exchangeVars, clientVars, uploadDir, dirs, nreq>>

\* f.Truncate(r.ContentLength)
RawPresize(c) ==
    /\ up[c].pc = "presize"
    /\ Commit(names, [inodes EXCEPT ![up[c].ino] = Resize(@, up[c].clen)],
              [up EXCEPT ![c] = GetBuffer([up[c] EXCEPT !.pc = "copy"])])
    /\ UNCHANGED <<sessionVars, exchangeVars, clientVars, uploadDir, dirs, nreq>>

\* io.CopyBuffer(f, r.Body, buf), a byte at a time; MaxBytesReader hands
\* over at most MaxUploadSize bytes
RawCopy(c) ==
    /\ up[c].pc = "copy"
    /\ up[c].got < Len(up[c].body)
    /\ up[c].got < MaxUploadSize
    /\ Commit(names,
              [inodes EXCEPT ![up[c].ino] = WriteAt(@, up[c].got, up[c].body[up[c].got + 1])],
              [up EXCEPT ![c].got = @ + 1])
    /\ UNCHANGED <<sessionVars, exchangeVars, clientVars, uploadDir, dirs, nreq>>

\* the path the deferred cleanup removes
CleanupDeclaredName(h) == Join(Dest, h.name)

CleanupPath(h) == h.outPath

\* io.CopyBuffer returns an error: the connection dropped before the end of
\* the body, the body went over MaxUploadSize, or a write failed.  The
\* deferred function closes f and, success being false, removes outPath.
RawAbort(c) ==
    /\ up[c].pc = "copy"
    /\ up[c].got < Len(up[c].body) \/ up[c].clen < 0
    /\ Respond(c, PutBuffer(up[c]), Remove(names, CleanupPath(up[c])),
               UpResponse(500, "stream error"))
    /\ UNCHANGED <<sessionVars, exchangeVars, clientVars, uploadDir, dirs, nreq>>

\* the body ended: success = true and the 200 with the stored name
RawFinish(c) ==
    /\ up[c].pc = "copy"
    /\ up[c].got = Len(up[c].body)
    /\ Respond(c, PutBuffer(up[c]), names,
              [status |-> 200, msg |-> "success",
               filename |-> Base(up[c].outPath), size |-> up[c].got])
    /\ UNCHANGED <<sessionVars, exchangeVars, clientVars, uploadDir, dirs, nreq>>

\* mime/multipart's Part.FileName(): the base name of a filename given
PartFileName(filename) == IF filename = <<>> THEN <<>> ELSE Base(filename)

\* reader.NextPart() and the handler up to the copy of the part it found,
\* or the end of the form and the response; MaxBytesReader lets no more
\* than MaxUploadSize bytes of parts through
MultiNextPart(c) ==
    /\ up[c].pc = "part"
    /\ up[c].rd <= MaxUploadSize
    /\ LET h == up[c]
           part == h.parts[h.idx]
           name == Base(PartFileName(part.filename))
           outPath == Join(Dest, name)
           o == OpenFile(outPath)
       IN IF h.idx > Len(h.parts)
              THEN IF h.saved = <<>>
                       THEN Respond(c, h, names, UpResponse(400, "no file provided"))
                       ELSE Respond(c, h, names, UpResponse(200, "ok"))
          ELSE IF PartFileName(part.filename) = <<>> \/ name = <<".">> \/ name = <<".", ".">>
              \* the part is skipped; its bytes are read on the way to the next
              THEN Commit(names, inodes,
                          [up EXCEPT ![c].idx = @ + 1, ![c].rd = @ + Len(part.data)])
          ELSE IF o.err # ""
              THEN Respond(c, [h EXCEPT !.name = name, !.outPath = outPath], names,
                           UpResponse(500, "write error"))
          ELSE Commit(o.names, o.inodes,
                      [up EXCEPT ![c] =
                          GetBuffer([h EXCEPT !.pc = "mcopy", !.name = name,
                                              !.outPath = outPath, !.ino = o.ino,
                                              !.got = 0])])
    /\ UNCHANGED <<sessionVars, exchangeVars, clientVars, uploadDir, dirs, nreq>>

\* reader.NextPart() fails: the connection dropped or the form is malformed
MultiPartError(c) ==
    /\ up[c].pc = "part"
    /\ Respond(c, up[c], names, UpResponse(500, "upload error"))
    /\ UNCHANGED <<sessionVars, exchangeVars, clientVars, uploadDir, dirs, nreq>>

\* io.CopyBuffer(out, part, buf), a byte at a time
MultiCopy(c) ==
    /\ up[c].pc = "mcopy"
    /\ up[c].got < Len(up[c].parts[up[c].idx].data)
    /\ up[c].rd < MaxUploadSize
    /\ Commit(names,
              [inodes EXCEPT ![up[c].ino] =
                  WriteAt(@, up[c].got, up[c].parts[up[c].idx].data[up[c].got + 1])],
              [up EXCEPT ![c].got = @ + 1, ![c].rd = @ + 1])
    /\ UNCHANGED <<sessionVars, exchangeVars, clientVars, uploadDir, dirs, nreq>>

\* the copy or the Close returns an error: out is closed, the 500 is sent,
\* and the handler returns
MultiCopyFail(c) ==
    /\ up[c].pc = "mcopy"
    /\ Respond(c, PutBuffer(up[c]), names, UpResponse(500, "write error"))
    /\ UNCHANGED <<sessionVars, exchangeVars, clientVars, uploadDir, dirs, nreq>>

\* the part ended: out is closed and the file is added to saved
MultiPartDone(c) ==
    /\ up[c].pc = "mcopy"
    /\ up[c].got = Len(up[c].parts[up[c].idx].data)
    /\ Commit(names, inodes,
              [up EXCEPT ![c] =
                  PutBuffer([up[c] EXCEPT
                      !.pc = "part", !.ino = -1, !.idx = @ + 1,
                      !.saved = Append(@, [name |-> up[c].name, size |-> up[c].got])])])
    /\ UNCHANGED <<sessionVars, exchangeVars, clientVars, uploadDir, dirs, nreq>>

(***************************************************************************)
(* Host sessions.                                                          *)
(***************************************************************************)
UploadDirName == <<"u">>

UploadUrl(t) == UploadPathPrefix \o t

Fill(b, n) == [i \in 1..n |-> b]

RawRequest(xname, body, chunked) ==
    [path |-> UploadUrl(ClientToken), method |-> "POST", xname |-> xname,
     body |-> body, chunked |-> chunked, form |-> FALSE, parts |-> <<>>]

FormRequest(parts) ==
    [path |-> UploadUrl(ClientToken), method |-> "POST", xname |-> <<>>,
     body |-> <<>>, chunked |-> FALSE, form |-> TRUE, parts |-> parts]

NameAT == <<"a", ".", "t">>

\* the name the fallback gives a.t when the clock reads 1
NameA1T == <<"a", "_", "1", ".", "t">>

InitHost(dir) ==
    /\ hostMode = TRUE
    /\ token = ClientToken /\ textContent = <<>> /\ src = NoSource
    /\ InitExchange
    /\ InitClient
    /\ uploadDir = dir
    /\ dirs = {<<".">>, <<".", ".">>}
    /\ names = EmptyMap
    /\ inodes = EmptyMap
    /\ up = [c \in Conns |-> IdleHandler]
    /\ nreq = 0
    /\ log = <<>>

\* raw uploads, one after the other on one connection
MaxSeqRequests == CollisionLimit + 2

SeqRequests ==
    {RawRequest(NameAT, <<1>>, FALSE), RawRequest(NameAT, <<2, 2>>, TRUE),
     RawRequest(NameA1T, <<2>>, FALSE)}

NextRawSeq ==
    \/ \E r \in SeqRequests : nreq < MaxSeqRequests /\ UploadStart(1, r)
    \/ RawProbe(1)
    \/ RawOpen(1)
    \/ RawPresize(1)
    \/ RawCopy(1)
    \/ RawAbort(1)
    \/ RawFinish(1)

SpecRawSeq == InitHost(UploadDirName) /\ [][NextRawSeq]_vars

\* raw uploads on connections served at the same time
RaceRequests ==
    {RawRequest(NameAT, <<1>>, FALSE), RawRequest(NameAT, <<2, 2>>, TRUE)}

NextRaw ==
    \E c \in Conns :
        \/ \E r \in RaceRequests : nreq < MaxRaceRequests /\ UploadStart(c, r)
        \/ RawProbe(c)
        \/ RawOpen(c)
        \/ RawPresize(c)
        \/ RawCopy(c)
        \/ RawAbort(c)
        \/ RawFinish(c)

SpecRaw == InitHost(UploadDirName) /\ [][NextRaw]_vars

\* a host session that serves one request at a time, of every kind
Part(filename, data) == [filename |-> filename, data |-> data]

\* X-File-Name values: a plain name, "..%2Fa.t", "%2E%2E", ".", "%2F",
\* "b%2F.." and the malformed "%"
DeclaredNames ==
    {NameAT,
     <<".", ".", "%", "2", "F", "a", ".", "t">>,
     <<"%", "2", "E", "%", "2", "E">>,
     <<".">>,
     <<"%", "2", "F">>,
     <<"b", "%", "2", "F", ".", ".">>,
     <<"%">>}

\* forms: one file; a file named with a path out of the directory and a
\* field that is no file; the names "..", "/" and "b/."; a field alone; a
\* longer file; two files of one name; a file over the limit; no part
Forms ==
    {<<Part(NameAT, <<1>>)>>,
     <<Part(<<".", ".", "/", "a", ".", "t">>, <<1>>), Part(<<>>, <<2>>)>>,
     <<Part(<<".", ".">>, <<1>>), Part(NameAT, <<2>>)>>,
     <<Part(<<"/">>, <<1>>)>>,
     <<Part(<<"b", "/", ".">>, <<1>>)>>,
     <<Part(<<>>, <<1>>)>>,
     <<Part(NameAT, <<1, 2>>)>>,
     <<Part(NameAT, <<1>>), Part(NameAT, <<2>>)>>,
     <<Part(NameAT, Fill(1, MaxUploadSize + 1))>>,
     <<>>}

HostRequests ==
    {RawRequest(n, <<1>>, FALSE) : n \in DeclaredNames}
        \cup {RawRequest(NameAT, Fill(2, MaxUploadSize + 1), ch) : ch \in BOOLEAN}
        \cup {FormRequest(ps) : ps \in Forms}
        \cup {[FormRequest(<<>>) EXCEPT !.form = FALSE],
              [FormRequest(<<>>) EXCEPT !.method = "GET"],
              [RawRequest(NameAT, <<1>>, FALSE) EXCEPT !.method = "GET"],
              [RawRequest(NameAT, <<1>>, FALSE) EXCEPT !.method = "PUT"],
              [FormRequest(<<Part(NameAT, <<1>>)>>) EXCEPT !.method = "DELETE"]}
        \cup {[r EXCEPT !.path = UploadUrl(<<"b", "a">>)] :
                  r \in {RawRequest(NameAT, <<1>>, FALSE),
                         FormRequest(<<Part(NameAT, <<1>>)>>),
                         [FormRequest(<<>>) EXCEPT !.method = "GET"],
                         [RawRequest(NameAT, <<1>>, FALSE) EXCEPT !.method = "PUT"]}}

NextHost ==
    \/ \E r \in HostRequests : nreq < MaxHostRequests /\ UploadStart(1, r)
    \/ RawProbe(1)
    \/ RawOpen(1)
    \/ RawPresize(1)
    \/ RawCopy(1)
    \/ RawAbort(1)
    \/ RawFinish(1)
    \/ MultiNextPart(1)
    \/ MultiPartError(1)
    \/ MultiCopy(1)
    \/ MultiCopyFail(1)
    \/ MultiPartDone(1)

InitAnyHost == \E dir \in {<<>>, UploadDirName} : InitHost(dir)

SpecHost == InitAnyHost /\ [][NextHost]_vars

(***************************************************************************)
(* A server with several connections: in send mode each request runs       *)
(* handleDownload in a goroutine of its own, which opens the source itself  *)
(* and copies it to its connection; in host mode connection 1 uploads.      *)
(***************************************************************************)
ServeSources ==
    {NoSource, FileSource(<<1, 2>>),
     DirSource(<<RegularFile(1, <<1>>, TRUE), RegularFile(2, <<2>>, FALSE)>>)}

ServeRequests ==
    {Get(PathPrefix \o ClientToken),
     GetRange(PathPrefix \o ClientToken, 1),
     Get(PathPrefix \o [i \in 1..TokenLen |-> "b"])}

InitServe ==
    \/ /\ hostMode = FALSE
       /\ token = ClientToken /\ textContent = <<>> /\ src \in ServeSources
       /\ InitExchange
       /\ InitClient
       /\ InitNoHost
    \/ InitHost(UploadDirName)

\* a read position shared by all handlers
PosOfFirst(c) == down[1].pos

\* the offset of the file the handler of connection c has opened
Pos(c) == down[c].pos

\* a request arrives on connection c and its handler prepares the answer
DownStart(c, r) ==
    /\ ~hostMode
    /\ down[c].pc # "send"
    /\ nreq < MaxRaceRequests
    /\ nreq' = nreq + 1
    /\ down' = [down EXCEPT ![c] = [pc |-> "send", req |-> r,
                                    resp |-> HandleDownload(r),
                                    pos |-> 0, got |-> <<>>]]
    /\ UNCHANGED <<sessionVars, req, resp, lastStatus, zw, clientVars, uploadDir, dirs,
                   names, inodes, up, log>>

\* the handler of c moves the byte at its position to its connection
DownSend(c) ==
    /\ down[c].pc = "send"
    /\ Pos(c) < Len(down[c].resp.body)
    /\ down' = [down EXCEPT ![c].got = Append(@, down[c].resp.body[Pos(c) + 1]),
                            ![c].pos = Pos(c) + 1]
    /\ UNCHANGED <<sessionVars, req, resp, lastStatus, zw, clientVars, hostVars>>

\* the handler of c has sent the last byte and returns
DownFinish(c) ==
    /\ down[c].pc = "send"
    /\ Pos(c) = Len(down[c].resp.body)
    /\ down' = [down EXCEPT ![c].pc = "done"]
    /\ lastStatus' = down[c].resp.status
    /\ UNCHANGED <<sessionVars, req, resp, zw, clientVars, hostVars>>

\* the connection of c is lost before the last byte: the write fails and
\* the handler returns
DownDrop(c) ==
    /\ down[c].pc = "send"
    /\ Pos(c) < Len(down[c].resp.body)
    /\ down' = [down EXCEPT ![c].pc = "dropped"]
    /\ lastStatus' = -1
    /\ UNCHANGED <<sessionVars, req, resp, zw, clientVars, hostVars>>

\* a source that was missing is put back
SourceBack ==
    /\ ~hostMode
    /\ src = NoSource
    /\ SourceChange
    /\ src' = FileSource(<<2>>)

NextServe ==
    \/ \E c \in Conns, r \in ServeRequests : DownStart(c, r)
    \/ \E c \in Conns : DownSend(c)
    \/ \E c \in Conns : DownFinish(c)
    \/ \E c \in Conns : DownDrop(c)
    \/ SourceBack
    \/ \E r \in RaceRequests : nreq < MaxRaceRequests /\ UploadStart(1, r)
    \/ RawProbe(1)
    \/ RawOpen(1)
    \/ RawPresize(1)
    \/ RawCopy(1)
    \/ RawAbort(1)
    \/ RawFinish(1)

SpecServe == InitServe /\ [][NextServe]_vars

(***************************************************************************)
(* ZipDirectory step by step: the walk function is called for one entry    *)
(* at a time and returns before filepath.Walk calls it for the next.       *)
(***************************************************************************)
\* a Close that is put off until ZipDirectory itself returns
KeepOpen(open, name) == open

\* defer file.Close() in the walk function: it runs when the function
\* returns for this file
CloseFile(open, name) == open \ {name}

\* handleDownload calls ZipDirectory(w, s.SrcPath)
ZipBegin ==
    /\ ~hostMode /\ textContent = <<>>
    /\ IsDir(src)
    /\ zw.pc = "idle"
    /\ zw' = IF src.kind = "closeddir"
             THEN [IdleZip EXCEPT !.pc = "end", !.err = "walk"]
             ELSE [IdleZip EXCEPT !.pc = "walk", !.rest = src.entries]
    /\ UNCHANGED <<sessionVars, req, resp, lastStatus, down, clientVars, hostVars>>

\* the walk function is called for the next entry: a directory is passed
\* over; for a file the header is written and the file opened
ZipVisit ==
    /\ zw.pc = "walk"
    /\ zw.rest # <<>>
    /\ LET e == Head(zw.rest)
           next == [zw EXCEPT !.rest = Tail(zw.rest)]
       IN zw' = IF SkipsEntry(e) THEN next
                ELSE IF ~e.readable
                THEN [next EXCEPT !.pc = "end", !.err = "open",
                                  !.out = @ \o ZipMember(e.name, <<>>),
                                  !.count = @ + 1]
                ELSE [next EXCEPT !.pc = "copy", !.cur = e, !.n = 0,
                                  !.open = @ \cup {e.name},
                                  !.out = @ \o <<ZipLocalHeader, e.name>>,
                                  !.count = @ + 1]
    /\ UNCHANGED <<sessionVars, req, resp, lastStatus, down, clientVars, hostVars>>

\* io.Copy(f, file) moves the next byte of the open file into the archive
ZipCopy ==
    /\ zw.pc = "copy"
    /\ zw.n < Len(zw.cur.data)
    /\ zw' = [zw EXCEPT !.n = @ + 1, !.out = Append(@, zw.cur.data[zw.n + 1])]
    /\ UNCHANGED <<sessionVars, req, resp, lastStatus, down, clientVars, hostVars>>

\* io.Copy has reached the end of the file: the walk function returns nil
\* and its deferred Close runs
ZipFileDone ==
    /\ zw.pc = "copy"
    /\ zw.n = Len(zw.cur.data)
    /\ zw' = [zw EXCEPT !.pc = "walk", !.out = Append(@, ZipDataEnd),
                        !.open = CloseFile(@, zw.cur.name)]
    /\ UNCHANGED <<sessionVars, req, resp, lastStatus, down, clientVars, hostVars>>

\* a read of the open file fails: the walk function returns the error of
\* io.Copy and its deferred Close runs
ZipReadFail ==
    /\ zw.pc = "copy"
    /\ zw.n < Len(zw.cur.data)
    /\ zw' = [zw EXCEPT !.pc = "end", !.err = "read", !.out = Append(@, ZipDataEnd),
                        !.open = CloseFile(@, zw.cur.name)]
    /\ UNCHANGED <<sessionVars, req, resp, lastStatus, down, clientVars, hostVars>>

\* the walk is over or has returned an error: ZipDirectory returns and the
\* deferred zw.Close() writes the central directory
ZipEnd ==
    /\ \/ zw.pc = "walk" /\ zw.rest = <<>>
       \/ zw.pc = "end"
    /\ zw' = [zw EXCEPT !.pc = "closed", !.out = @ \o <<ZipCentralDir, zw.count>>]
    /\ UNCHANGED <<sessionVars, req, resp, lastStatus, down, clientVars, hostVars>>

NextZip ==
    \/ ZipBegin
    \/ ZipVisit
    \/ ZipCopy
    \/ ZipFileDone
    \/ ZipReadFail
    \/ ZipEnd

SpecZip == Init /\ [][NextZip]_vars

(***************************************************************************)
(* The server behind its mux: a request whose path is under no registered  *)
(* pattern gets http.NotFound from the mux and reaches no handler.         *)
(***************************************************************************)
\* http.NotFound: "404 page not found"
PageNotFound == [HttpError(404) EXCEPT !.body = <<-4040>>]

\* requests to the endpoint a server may not have: a GET and a raw POST on
\* the upload path, a GET on the download path, each with the token
MuxRequests ==
    {Get(UploadUrl(ClientToken)), RawRequest(NameAT, <<1>>, FALSE),
     Get(PathPrefix \o ClientToken)}

\* the mux finds a registered pattern for the path
Routed(path) ==
    \/ Registered(PathPrefix) /\ HasPrefix(path, PathPrefix)
    \/ Registered(UploadPathPrefix) /\ HasPrefix(path, UploadPathPrefix)

\* a request under no registered pattern is answered by the mux
MuxMiss ==
    /\ req = NoRequest
    /\ \E r \in MuxRequests :
        /\ ~Routed(r.path)
        /\ req' = r
    /\ resp' = PageNotFound
    /\ UNCHANGED <<sessionVars, lastStatus, down, zw, clientVars, hostVars>>

InitMux ==
    \/ /\ hostMode = FALSE
       /\ token = ClientToken
       /\ textContent \in {<<>>, <<1>>}
       /\ src \in ServeSources
       /\ textContent # <<>> => src = NoSource
       /\ InitExchange
       /\ InitClient
       /\ InitNoHost
    \/ InitHost(UploadDirName)

NextMux ==
    \/ Download
    \/ MuxMiss
    \/ EndExchange
    \/ \E r \in RaceRequests : nreq < MaxRaceRequests /\ UploadStart(1, r)
    \/ RawProbe(1)
    \/ RawOpen(1)
    \/ RawPresize(1)
    \/ RawCopy(1)
    \/ RawAbort(1)
    \/ RawFinish(1)

SpecMux == InitMux /\ [][NextMux]_vars

(***************************************************************************)
(* A send session made with --stdin: sendCmd reads standard input to its   *)
(* end and starts a server with that as TextContent and no SrcPath.        *)
(***************************************************************************)
\* server.Server{Token: tok, TextContent: string(data)}
StdinSession(data) == [textContent |-> data, src |-> NoSource]

InitStdin ==
    /\ hostMode = FALSE
    /\ token \in Tokens
    /\ \E data \in SeqsUpTo(Byte, MaxSize) :
           /\ textContent = StdinSession(data).textContent
           /\ src = StdinSession(data).src
    /\ InitExchange
    /\ InitClient
    /\ InitNoHost

SpecStdin == InitStdin /\ [][Next]_vars

(***************************************************************************)
(* Properties of the download endpoint (Spec).                             *)
(***************************************************************************)
Answered == req # NoRequest

ReqSuffix == TrimPrefix(req.path, PathPrefix)

ServesFile == textContent = <<>> /\ src.kind = "file"

\* C1: a request on the download endpoint whose path suffix is not exactly
\* the session token is answered 403 whatever the payload kind and the
\* headers, and the response carries the error line only: no payload byte,
\* no payload header.
C1_WrongTokenForbidden ==
    (Answered /\ ReqSuffix # token) =>
        /\ resp.status = 403
        /\ resp.body = <<-403>>
        /\ resp.cdisp = "" /\ resp.fname = "" /\ resp.clen = -1 /\ resp.crange = <<>>

\* a directory session has answered 403 to a request with a Range header
\* whose suffix is the token followed by one more character
C1_Witness ==
    /\ Answered
    /\ ReqSuffix # token /\ HasPrefix(ReqSuffix, token)
    /\ src.kind = "dir" /\ src.entries # <<>>
    /\ req.range # NoRange
    /\ resp.status = 403

\* C3: for a file of size `size`, a request with the right token and
\* "Range: bytes=N-", 0 < N < size, is answered 206 with
\* "Content-Range: bytes N-(size-1)/size", Content-Length size-N and the
\* source bytes N..size-1 as body.
C3_RangeAnswered206 ==
    (Answered /\ ReqSuffix = token /\ ServesFile) =>
        \A n \in 1..(Len(src.data) - 1) :
            req.range = BytesFrom(n) =>
                /\ resp.status = 206
                /\ resp.crange = ContentRange(n, Len(src.data) - 1, Len(src.data))
                /\ resp.clen = Len(src.data) - n
                /\ resp.body = [i \in 1..(Len(src.data) - n) |-> src.data[n + i]]

\* a two-byte file with distinct bytes was asked for from offset 1
C3_Witness ==
    /\ Answered /\ ReqSuffix = token /\ ServesFile
    /\ src.data = <<1, 2>>
    /\ req.range = BytesFrom(1)
    /\ resp.status = 206 /\ resp.body = <<2>>

\* C4: when the range of a file request cannot be honored (the start offset
\* N is at or beyond the file's length, or the seek fails), the answer is the
\* full transfer: 200 with the whole file, never an error, never a 206 whose
\* range lies outside the file.
C4_UnsatisfiableFallsBack ==
    (Answered /\ ReqSuffix = token /\ ServesFile) =>
        \A n \in 1..(MaxSeek + 1) :
            (req.range = BytesFrom(n) /\ (n >= Len(src.data) \/ ~SeekOK(n))) =>
                /\ resp.status = 200
                /\ resp.body = src.data

(***************************************************************************)
(* Properties of Receive (SpecReceive, SpecResume).                        *)
(***************************************************************************)
CallReturned == cpc = "done"

GoodUrl == url = PathPrefix \o token

\* C2 as stated: for a source file of size S and every 0 <= P < S, a
\* Receive call that is not cut short, whether it finds no destination or the
\* first P bytes an interrupted call left, ends with the destination equal to
\* the source.
C2_Original ==
    (ServesFile /\ GoodUrl /\ CallReturned /\ result.err \notin {"network", "copy"}) =>
        dest = File(src.data)

\* C2, amended: a call that returns success leaves the destination equal to
\* the source (resumed from P when 0 < P < S and force is off, downloaded
\* whole otherwise); the only calls refused are those without force that find
\* the destination complete or, the case P = 0, existing and empty.
C2_ResumeYieldsSource ==
    (ServesFile /\ GoodUrl /\ CallReturned) =>
        /\ result.err \in {"", "destination exists", "network", "copy"}
        /\ result.err = "" => dest = File(src.data)
        /\ result.err = "destination exists" =>
              /\ ~force
              /\ dest \in {File(<<>>), File(src.data)}
              /\ existingSize = Len(dest.data)

\* a call resumed at offset 1 of a two-byte file and completed it
C2_Witness ==
    /\ ServesFile /\ GoodUrl /\ CallReturned
    /\ result.err = "" /\ startByte = 1
    /\ src.data = <<1, 2>> /\ dest = File(src.data)

\* C10 as stated: when Receive fails with the destination-conflict error it
\* has issued no HTTP request in that call.
C10_Original ==
    (CallReturned /\ result.err = "destination exists") => issued = <<>>

\* C10, amended: when the destination exists, is not resumable (empty, or
\* not shorter than the advertised total) and force is off, Receive fails with
\* the destination-conflict error right after the initial request that told it
\* the total, before any download request: that one request without Range is
\* all the call has issued, and the destination is untouched.
C10_ConflictAfterProbe ==
    [][(/\ cpc = "stat"
        /\ dest.exists
        /\ ~force
        /\ ~(Len(dest.data) > 0 /\ Len(dest.data) < totalSize))
       => (/\ cpc' = "done"
           /\ result'.err = "destination exists"
           /\ dest' = dest
           /\ issued' = issued
           /\ issued = <<Get(url)>>)]_vars

\* a call was refused on a destination longer than the source
C10_Witness ==
    /\ CallReturned /\ result.err = "destination exists"
    /\ ServesFile
    /\ existingSize > Len(src.data)
    /\ Len(issued) = 1


(***************************************************************************)
(* Properties of raw uploads served one after the other (SpecRawSeq).      *)
(***************************************************************************)
\* the handler of connection c has returned from a copy that failed
RawAborted(c) ==
    /\ up[c].pc = "done"
    /\ up[c].kind = "raw"
    /\ up[c].resp.msg = "stream error"

\* C5: when a raw upload's body breaks off (the client is killed, so the
\* copy returns an error), then after the handler has returned the files of
\* the upload directory and their contents are exactly those from before
\* the request, and the response was not a 200.
C5_AbortLeavesDirectoryAsBefore ==
    \A c \in Conns :
        RawAborted(c) => /\ Listing = up[c].before
                         /\ up[c].resp.status # 200

\* the i-th name of the series x.ext, x (1).ext, x (2).ext, ...
SeriesName(name, i) ==
    IF i = 1 THEN name
    ELSE Numbered(TrimSuffix(name, Ext(name)), i - 1, Ext(name))

\* the requests that have succeeded, in order
Succeeded == SelectSeq(log, LAMBDA e : e.status = 200)

\* every request so far declared the name a.t
OnlyNameAT == \A i \in 1..Len(log) : log[i].xname = NameAT

\* k uploads of a.t, one after the other, have left a.t, a (1).t, ...,
\* each with the bytes of its upload
SeriesStored ==
    (OnlyNameAT /\ Len(Succeeded) <= CollisionLimit /\ up[1].pc \in {"idle", "done"})
        => /\ DOMAIN names = {Join(Dest, SeriesName(NameAT, i)) : i \in 1..Len(Succeeded)}
           /\ \A i \in 1..Len(Succeeded) :
                  LET path == Join(Dest, SeriesName(NameAT, i))
                  IN /\ Succeeded[i].path = path
                     /\ Listing[path] = Succeeded[i].body

\* the files that existed when the request of connection c arrived are
\* still there with the content they had
BeforeIntact(c) ==
    \A p \in DOMAIN up[c].before :
        p \in DOMAIN names /\ Listing[p] = up[c].before[p]

\* C7: k raw uploads of the same name x.ext, one after the other, with k
\* within the collision limit, leave the k files x.ext, x (1).ext, ...,
\* x (k-1).ext, each holding the bytes of its own upload; and no raw upload,
\* at any point of its handling, has overwritten or truncated a file that
\* existed when its request started.
C7_SeriesAndNoOverwrite ==
    /\ SeriesStored
    /\ \A c \in Conns : up[c].kind = "raw" => BeforeIntact(c)

(***************************************************************************)
(* Properties of raw uploads served at the same time (SpecRaw).            *)
(***************************************************************************)
\* the i-th finished request was a raw upload answered with 200
ReportedSaved(i) == log[i].kind = "raw" /\ log[i].status = 200

\* the file that request stored is there with the bytes of its upload
Intact(i) ==
    /\ log[i].path \in DOMAIN names
    /\ Listing[log[i].path] = log[i].body

\* C8 as stated: a file that a raw upload has written and reported as saved
\* stays as it was stored, whatever happens to the other uploads.
C8_SavedFilesStayIntact ==
    \A i \in 1..Len(log) : ReportedSaved(i) => Intact(i)

\* C8, amended: a step takes a saved and reported file away, or changes its
\* content, only if it is a step of an upload whose own computed path
\* (outPath) is that file's path.
C8_OnlyOwnPathTouched ==
    [][\A i \in 1..Len(log) :
           (ReportedSaved(i) /\ Intact(i) /\ ~Intact(i)')
               => \E c \in Conns : up'[c] # up[c] /\ up[c].outPath = log[i].path]_vars

\* one upload has been saved and reported, another has failed in its copy
\* and cleaned up after itself, and the saved file is as it was stored
C8_Witness ==
    \E i, j \in 1..Len(log) :
        /\ i < j
        /\ ReportedSaved(i) /\ Intact(i)
        /\ log[j].kind = "raw" /\ log[j].status = 500
        /\ log[j].path # <<>> /\ log[j].path # log[i].path
        /\ log[j].path \notin DOMAIN names

(***************************************************************************)
(* Properties of a host session of every kind of request (SpecHost).       *)
(***************************************************************************)
\* the handler of connection c has returned with the 500 of a failed part
PartFailed(c) ==
    /\ up[c].pc = "done"
    /\ up[c].kind = "multi"
    /\ up[c].resp.msg = "write error"

\* C6: when the multipart path fails while it opens or copies a file part,
\* no file is left at that part's destination once the handler has
\* returned.
C6_FailedPartLeavesNoFile ==
    \A c \in Conns : PartFailed(c) => up[c].outPath \notin DOMAIN names

\* "." / ".."
DotNames == {<<".">>, <<".", ".">>}

\* the names findUniqueFilename may store an upload of name under
StoredNames(name) ==
    LET ext == Ext(name)
        base == TrimSuffix(name, ext)
    IN {name} \cup {Numbered(base, i, ext) : i \in 1..CollisionLimit}
              \cup {Stamped(base, now, ext) : now \in Clock}

\* C9: every file the upload handlers have created lies directly in the
\* upload directory under a name other than "." and ".."; a raw upload is
\* stored at the upload directory joined with the base name of its
\* percent-decoded declared name (or that name with a collision suffix), a
\* multipart file under the base name of its part's file name; and a raw upload whose decoded name has the base
\* ".", ".." or "" is answered 400, or 413 when its declared length is over
\* the limit, and is given no destination.
C9_DestinationConfined ==
    /\ \A p \in DOMAIN names : Dir(p) = Dest /\ Base(p) \notin DotNames
    /\ dirs \subseteq {<<".">>, <<".", ".">>, Dest}
    /\ \A i \in 1..Len(log) :
           LET e == log[i]
               decoded == QueryUnescape(e.xname)
           IN /\ (e.kind = "raw" /\ e.status = 200)
                  => /\ decoded.ok
                     /\ e.path \in {Join(Dest, n) : n \in StoredNames(Base(decoded.val))}
                     /\ e.filename = Base(e.path)
              /\ (e.kind = "raw" /\ decoded.ok /\ Base(decoded.val) \in DotNames \cup {<<>>})
                  => /\ e.status = 400 \/ (e.status = 413 /\ Len(e.body) > MaxUploadSize)
                     /\ e.path = <<>>
              /\ e.kind = "multi"
                  => \A k \in 1..Len(e.saved) :
                         /\ \E n \in 1..Len(e.parts) : e.saved[k].name = Base(e.parts[n].filename)
                         /\ Join(Dest, e.saved[k].name) \in DOMAIN names
                         /\ e.saved[k].name \notin DotNames

\* names that would leave the directory have been declared on both paths,
\* the raw one was stored and the raw ".." was refused
C9_Witness ==
    /\ uploadDir = UploadDirName
    /\ \E i, j \in 1..Len(log) :
           /\ log[i].kind = "raw" /\ log[i].status = 200
           /\ log[i].xname = <<".", ".", "%", "2", "F", "a", ".", "t">>
           /\ log[i].path \in DOMAIN names
           /\ log[j].kind = "multi" /\ log[j].status = 200
           /\ log[j].parts[1].filename = <<".", ".", "/", "a", ".", "t">>

(***************************************************************************)
(* Properties of a text session (Spec).                                    *)
(***************************************************************************)
\* C13: in a text session every request with the right token, whatever its
\* Range header, is answered 200 with the whole text as body, its length
\* as Content-Length, Content-Type text/plain; charset=utf-8, no
\* Content-Disposition, no Content-Range, and the headers Cache-Control
\* no-store, no-cache, must-revalidate, max-age=0, Pragma no-cache and
\* Expires 0.
C13_TextAlwaysWhole ==
    (Answered /\ textContent # <<>> /\ ReqSuffix = token) =>
        resp = [status |-> 200, ctype |-> "text/plain; charset=utf-8", cdisp |-> "",
                clen |-> Len(textContent), fname |-> "", crange |-> <<>>,
                cache |-> "no-store, no-cache, must-revalidate, max-age=0",
                pragma |-> "no-cache", expires |-> "0", body |-> textContent]

\* a request for the bytes from offset 1 on of a two-byte text has been
\* answered with both bytes
C13_Witness ==
    /\ Answered /\ ReqSuffix = token
    /\ textContent = <<1, 2>>
    /\ req.range = BytesFrom(1)
    /\ resp.status = 200 /\ resp.body = <<1, 2>>

(***************************************************************************)
(* Properties of the receiving client (SpecReceive, SpecReceiveLive).      *)
(***************************************************************************)
\* the requests a step has added to those the call has issued
NewlyIssued == {issued'[i] : i \in (Len(issued) + 1)..Len(issued')}

FellBack ==
    /\ Len(issued) = 3
    /\ issued[2].range # NoRange
    /\ issued[3] = Get(url)

\* C12: when the ranged request is not answered 206, Receive recreates the
\* destination and asks again without Range; from then on the destination
\* holds what has been copied of that last response and nothing else, and
\* when the call returns success it holds exactly that response's body.
C12_FallbackStartsOver ==
    (FellBack /\ cpc \in {"copy", "done"}) =>
        /\ startByte = 0
        /\ result.err \in {"", "copy", "network"}
        /\ result.err # "network" => dest = File(SubSeq(dl.body, 1, copied))
        /\ result.err = "network" => dest = File(<<>>)
        /\ (cpc = "done" /\ result.err = "") => dest = File(dl.body)

\* a call found a partial destination, was refused the range, and has
\* stored the whole of the response to its second request
C12_Witness ==
    /\ FellBack /\ CallReturned /\ result.err = ""
    /\ existingSize > 0
    /\ dl.body # <<>>
    /\ dest = File(dl.body)

\* C14: in a text session nothing Receive does creates or changes the
\* destination, whatever it holds and whatever the force flag; the call
\* returns straight from its initial request, and when it returns success
\* it returns "(stdout)" with the text, whole and unchanged, on stdout.
C14_TextToStdoutOnly ==
    [][textContent # <<>> =>
           /\ dest' = dest
           /\ cpc = "probe" =>
                  /\ cpc' = "done"
                  /\ (GoodUrl /\ result'.err = "") =>
                         /\ result'.path = "(stdout)"
                         /\ stdout' = textContent]_vars

\* a forced call on an existing destination has put a two-byte text on
\* stdout and left the destination as it was
C14_Witness ==
    /\ CallReturned /\ GoodUrl /\ force
    /\ textContent = <<1, 2>>
    /\ result = [path |-> "(stdout)", err |-> ""]
    /\ stdout = textContent
    /\ dest = File(<<2>>)

(***************************************************************************)
(* Properties of the upload endpoint's dispatch (SpecHost).                *)
(***************************************************************************)
\* the request of log entry e came with a token that is not the session's
WrongToken(e) == TrimPrefix(e.target, UploadPathPrefix) # token

\* this step answers a request
Answers == Len(log') = Len(log) + 1

Newest == log'[Len(log')]

\* nothing on the disk changes in this step: no file, no content, no
\* directory
DiskUntouched == names' = names /\ inodes' = inodes /\ dirs' = dirs

\* C15: a request on the upload endpoint with a wrong token is answered 403
\* whatever its method and whichever ingestion path its headers select, in
\* the step that receives it (before the method is looked at, before either
\* path is entered), and nothing on the disk changes: the upload directory
\* is neither created nor changed.
C15_WrongTokenForbidden ==
    [][\A c \in Conns :
           (Answers /\ up'[c] # up[c] /\ WrongToken(Newest))
               => /\ up[c].pc \in {"idle", "done"}
                  /\ Newest.status = 403
                  /\ Newest.msg = "forbidden"
                  /\ Newest.kind = ""
                  /\ DiskUntouched]_vars

\* a POST that declares a file name and a GET, both with a wrong token,
\* have been turned away and the upload directory was never created
C15_Witness ==
    /\ uploadDir = UploadDirName
    /\ Len(log) = 2
    /\ \A i \in 1..2 : WrongToken(log[i]) /\ log[i].status = 403
    /\ log[1].method = "POST" /\ log[1].xname = NameAT
    /\ log[2].method = "GET"
    /\ Dest \notin dirs
    /\ names = EmptyMap

\* the steps of the two ingestion paths
RawSteps == {"probe", "open", "presize", "copy"}

MultiSteps == {"part", "mcopy"}

\* C16: with the right token, GET is answered 200 with the HTML form and
\* nothing on the disk changes; a POST goes down the raw path exactly when
\* its X-File-Name header is not empty and down the multipart path
\* otherwise; any other method is answered 405 and nothing is written.
C16_Dispatch ==
    [][\A c \in Conns :
           LET h == up'[c]
           IN /\ (nreq' = nreq + 1 /\ h # up[c] /\ h.target = UploadUrl(token))
                  => /\ h.method = "GET"
                         => /\ h.pc = "done"
                            /\ h.resp.status = 200
                            /\ h.resp.msg = "uploadPageHTML"
                            /\ DiskUntouched
                     /\ h.method = "POST"
                         => /\ h.kind = "raw" <=> h.xname # <<>>
                            /\ h.kind = "multi" <=> h.xname = <<>>
                     /\ h.method \notin {"GET", "POST"}
                         => /\ h.pc = "done"
                            /\ h.resp.status = 405
                            /\ h.kind = ""
                            /\ DiskUntouched
              /\ h.pc \in RawSteps => h.kind = "raw" /\ h.xname # <<>>
              /\ h.pc \in MultiSteps => h.kind = "multi" /\ h.xname = <<>>]_vars

\* the form has been served for a GET that carried a file name, and a PUT
\* that carried one has been refused; no file and no directory was made
C16_Witness ==
    /\ uploadDir = UploadDirName
    /\ Len(log) = 2
    /\ \A i \in 1..2 : ~WrongToken(log[i]) /\ log[i].xname = NameAT
    /\ log[1].method = "GET" /\ log[1].status = 200 /\ log[1].msg = "uploadPageHTML"
    /\ log[2].method = "PUT" /\ log[2].status = 405
    /\ Dest \notin dirs
    /\ names = EmptyMap

(***************************************************************************)
(* Properties of the upload endpoint's rejections (SpecHost).              *)
(***************************************************************************)
\* the Content-Length of a raw upload is over the limit
DeclaredExcess(h) == h.kind = "raw" /\ h.clen > MaxUploadSize

\* the handler has read as many bytes as the limit lets through and the
\* body holds more: of a raw upload's body, or of the part being copied
ObservedExcess(h) ==
    \/ /\ h.kind = "raw"
       /\ h.clen <= MaxUploadSize
       /\ h.got = MaxUploadSize
       /\ Len(h.body) > MaxUploadSize
    \/ /\ h.kind = "multi"
       /\ h.rd = MaxUploadSize
       /\ h.idx \in 1..Len(h.parts)
       /\ h.outPath # <<>>
       /\ h.got < Len(h.parts[h.idx].data)

\* C17: a POST whose body is over the limit, by its Content-Length or as
\* found while the body is read, is answered 413 on either ingestion path,
\* and no file of that request is left in the upload directory.
C17_OversizeRejected ==
    \A c \in Conns :
        (up[c].pc = "done" /\ (DeclaredExcess(up[c]) \/ ObservedExcess(up[c])))
            => /\ up[c].resp.status = 413
               /\ up[c].outPath \notin DOMAIN names

\* no part of the form is a file with a usable name
NoUsablePart(parts) ==
    \A i \in 1..Len(parts) :
        \/ PartFileName(parts[i].filename) = <<>>
        \/ Base(PartFileName(parts[i].filename)) \in DotNames

\* the X-File-Name value cannot be percent-decoded, or what it decodes to
\* has the base name ".", ".." or none
UnusableDeclaredName(xname) ==
    \/ ~QueryUnescape(xname).ok
    \/ Base(QueryUnescape(xname).val) \in DotNames \cup {<<>>}

\* a POST that carries nothing to store: a body that is no multipart form,
\* a form that was read to its end and has no usable file part, a raw upload
\* (of a length within the limit) with an unusable name
EmptySubmission(h) ==
    \/ h.kind = "multi" /\ ~h.form
    \/ h.kind = "multi" /\ h.form /\ NoUsablePart(h.parts) /\ h.resp.msg # "upload error"
    \/ h.kind = "raw" /\ h.clen <= MaxUploadSize /\ UnusableDeclaredName(h.xname)

ReportsSuccess(c) ==
    /\ up[c].kind = "raw"
    /\ up[c].pc = "copy"
    /\ up'[c].pc = "done"
    /\ up'[c].resp.status = 200

\* after this step the file named in c's response is in the upload
\* directory and holds the request's body, no byte more and no byte less
StoredWhole(c) ==
    LET h == up'[c]
    IN /\ h.outPath \in DOMAIN names'
       /\ h.outPath = Join(Dest, h.resp.filename)
       /\ Listing'[h.outPath] = h.body
       /\ h.resp.size = Len(h.body)
       /\ h.clen >= 0 => Len(Listing'[h.outPath]) = h.clen

\* another upload that computed the same path as c was in progress while
\* c was
SharedPath(c) ==
    \/ \E d \in Conns \ {c} :
           up[d].pc \in {"open", "presize", "copy"} /\ up[d].outPath = up[c].outPath
    \/ \E i \in (up[c].since + 1)..Len(log) : log[i].path = up[c].outPath

\* C19 as stated: whenever the raw path answers 200, the file named in the
\* response exists in the upload directory, its content is the request
\* body, and its length is the size in the response and the Content-Length
\* that was declared.
C19_SuccessMeansStored ==
    [][\A c \in Conns : ReportsSuccess(c) => StoredWhole(c)]_vars

\* C19, amended: the same, for an upload whose path no other upload in
\* progress at the same time had computed as well.
C19_SuccessMeansStoredUnlessShared ==
    [][\A c \in Conns : (ReportsSuccess(c) /\ ~SharedPath(c)) => StoredWhole(c)]_vars

\* an upload with a declared length has been answered 200 and its file
\* holds its body, while another upload, begun before that answer, is being
\* copied to a path of its own
C19_Witness ==
    /\ up[1].pc = "done" /\ up[1].kind = "raw" /\ up[1].resp.status = 200
    /\ up[1].clen = 1 /\ up[1].body = <<1>>
    /\ up[1].outPath \in DOMAIN names
    /\ Listing[up[1].outPath] = <<1>>
    /\ Len(log) = 1
    /\ up[2].pc = "copy" /\ up[2].since = 0
    /\ up[2].outPath # up[1].outPath

\* the multipart path has answered 200
MultiSucceeded(h) == h.pc = "done" /\ h.kind = "multi" /\ h.resp.status = 200

\* where the handler stores a part
PartPath(p) == Join(Dest, Base(PartFileName(p.filename)))

\* a part that carries a file name
FilePart(p) == p.filename # <<>>

\* a file part whose base name is neither "." nor ".."
UsablePart(p) == FilePart(p) /\ Base(PartFileName(p.filename)) \notin DotNames

\* no later usable part of the form goes to the same path as part i
LastOfItsName(parts, i) ==
    \A j \in (i + 1)..Len(parts) :
        UsablePart(parts[j]) => PartPath(parts[j]) # PartPath(parts[i])

\* the files of the directory are those from before the request and those
\* of the given parts and no other (no renamed copy, nothing for a part not
\* among them), and a file that no part went to is as it was
OnlyPartsStored(h, stored) ==
    /\ DOMAIN names = DOMAIN h.before \cup {PartPath(h.parts[i]) : i \in stored}
    /\ \A p \in DOMAIN h.before \ {PartPath(h.parts[i]) : i \in stored} :
           Listing[p] = h.before[p]

\* C20 as stated: after a multipart POST answered 200, for every file part
\* the file <upload dir>/<base name of the part's filename> exists and
\* holds exactly that part's bytes; a file of that name that existed is
\* overwritten in place, and parts that are no files produce no file.
C20_EveryFilePartStored ==
    \A c \in Conns :
        MultiSucceeded(up[c]) =>
            LET h == up[c]
                files == {i \in 1..Len(h.parts) : FilePart(h.parts[i])}
            IN /\ \A i \in files :
                      /\ PartPath(h.parts[i]) \in DOMAIN names
                      /\ Listing[PartPath(h.parts[i])] = h.parts[i].data
               /\ OnlyPartsStored(h, files)

\* C20, amended: the same for the file parts whose base name is neither "."
\* nor ".." (the others are skipped like fields), where of several parts
\* of one name the file holds the bytes of the last.
C20_UsablePartsStoredLastWins ==
    \A c \in Conns :
        MultiSucceeded(up[c]) =>
            LET h == up[c]
                usable == {i \in 1..Len(h.parts) : UsablePart(h.parts[i])}
            IN /\ usable # {}
               /\ \A i \in usable :
                      /\ PartPath(h.parts[i]) \in DOMAIN names
                      /\ LastOfItsName(h.parts, i)
                             => Listing[PartPath(h.parts[i])] = h.parts[i].data
               /\ OnlyPartsStored(h, usable)

\* a.t held two bytes; a form with a one-byte a.t has been answered 200 and
\* a.t, the only file, now holds that one byte
C20_Witness ==
    /\ MultiSucceeded(up[1])
    /\ up[1].parts = <<Part(NameAT, <<1>>)>>
    /\ DOMAIN up[1].before = {Join(Dest, NameAT)}
    /\ Len(up[1].before[Join(Dest, NameAT)]) = 2
    /\ DOMAIN names = {Join(Dest, NameAT)}
    /\ Listing[Join(Dest, NameAT)] = <<1>>

(***************************************************************************)
(* Properties of a directory session's archive (Spec).                     *)
(***************************************************************************)
\* the position of the first b in s, 0 when there is none
IndexOf(s, b) ==
    IF \E i \in 1..Len(s) : s[i] = b
    THEN CHOOSE i \in 1..Len(s) : s[i] = b /\ \A j \in 1..(i - 1) : s[j] # b
    ELSE 0

RECURSIVE Unzip(_, _)
\* reading an archive back: the members in the order they stand in it, each
\* with its name and bytes, up to the central directory, whose count must
\* be theirs; what follows the central directory (trailer) is not part of
\* the archive and a reader passes over it
Unzip(s, files) ==
    LET bad == [ok |-> FALSE, files |-> <<>>, trailer |-> <<>>]
    IN IF Len(s) < 2 THEN bad
       ELSE IF s[1] = ZipCentralDir
           THEN [ok |-> s[2] = Len(files), files |-> files,
                 trailer |-> SubSeq(s, 3, Len(s))]
       ELSE IF s[1] = ZipLocalHeader
           THEN LET rest == SubSeq(s, 3, Len(s))
                    end == IndexOf(rest, ZipDataEnd)
                IN IF end = 0 THEN bad
                   ELSE Unzip(SubSeq(rest, end + 1, Len(rest)),
                              Append(files, [name |-> s[2],
                                             data |-> SubSeq(rest, 1, end - 1)]))
       ELSE bad

\* the regular files among the entries, in the order of the walk
RegularFiles(entries) == SelectSeq(entries, LAMBDA e : ~e.dir)

AllReadable(entries) == \A i \in 1..Len(entries) : entries[i].readable

\* the request was for a directory session's archive and had the token
ServesDir == textContent = <<>> /\ src.kind = "dir" /\ ReqSuffix = token

\* C21: the archive of a directory tree, read back, gives every regular
\* file of the tree with its content under its relative path: one member
\* for each regular file and none for a directory, each named with the
\* file's relative path, in the order of the walk.
C21_ArchiveRoundTrip ==
    (Answered /\ ServesDir /\ AllReadable(src.entries)) =>
        LET x == Unzip(resp.body, <<>>)
            fs == RegularFiles(src.entries)
        IN /\ resp.status = 200
           /\ x.ok /\ x.trailer = <<>>
           /\ Len(x.files) = Len(fs)
           /\ \A i \in 1..Len(fs) :
                  /\ x.files[i].name = fs[i].name
                  /\ x.files[i].data = fs[i].data

\* a tree of a file, a subdirectory and a file in it has been archived and
\* the archive holds two members
C21_Witness ==
    /\ Answered /\ ServesDir /\ AllReadable(src.entries)
    /\ Len(src.entries) = 3
    /\ src.entries[2].dir
    /\ src.entries[3].data = <<2, 1>>
    /\ Len(Unzip(resp.body, <<>>).files) = 2

\* C22: when the walk of the directory fails (a file cannot be opened or
\* read), the response is aborted: the requester gets no 200 response that
\* ends normally and carries a well-formed archive lacking members, and
\* Receive does not report the download as saved.  Stated for a call that
\* has read the response to its end.
C22_FailedArchiveNotDelivered ==
    (/\ CallReturned /\ GoodUrl
     /\ textContent = <<>> /\ src.kind = "dir" /\ ~AllReadable(src.entries)
     /\ dl # NoResponse /\ copied = Len(dl.body))
        => /\ ~(dl.status = 200 /\ Unzip(dl.body, <<>>).ok)
           /\ result.err # ""

(***************************************************************************)
(* Further properties of the download endpoint (Spec).                     *)
(***************************************************************************)
\* C27: a request for a file session with the token and no Range header,
\* or with "Range: bytes=N-" where N is 0, is answered 200 with the whole
\* file; 206 is the answer only for N > 0.
C27_WholeFileUnlessPositiveStart ==
    (Answered /\ ServesFile /\ ReqSuffix = token) =>
        /\ req.range \in {NoRange, BytesFrom(0)}
               => resp.status = 200 /\ resp.body = src.data
        /\ \A n \in 0..(MaxSeek + 1) :
               (req.range = BytesFrom(n) /\ resp.status = 206) => n > 0

\* the file names a response's body carries
NamedInResponse(answer) == IF answer.filename = <<>> THEN {} ELSE {answer.filename}

\* C29: the body of the 200 response to a multipart upload names every
\* file the request saved.
C29_ResponseListsSaved ==
    \A c \in Conns :
        MultiSucceeded(up[c]) =>
            \A i \in 1..Len(up[c].saved) :
                up[c].saved[i].name \in NamedInResponse(up[c].resp)

(***************************************************************************)
(* Further properties of Receive (SpecReceive).                            *)
(***************************************************************************)
\* this step is the initial request of a call, and its response arrived
ProbeAnswered == cpc = "probe" /\ cpc' # cpc /\ result'.err # "network"

\* C28: Receive accepts only 200 and 206 on its initial request: on any
\* other status it returns an error that names the status, no local file is
\* created, truncated or changed, nothing is printed, and no further
\* request is made.
C28_OnlyOkOrPartialAccepted ==
    [][LET r == HandleDownload(Get(url))
       IN (ProbeAnswered /\ r.status \notin {200, 206})
              => /\ cpc' = "done"
                 /\ result' = [path |-> "", err |-> StatusError(r.status)]
                 /\ dest' = dest
                 /\ stdout' = stdout
                 /\ issued' = <<Get(url)>>]_vars

\* a forced call against a session whose source is gone has returned
\* "http status 404" after one request, and the destination is as it was
C28_Witness ==
    /\ CallReturned /\ GoodUrl /\ force
    /\ src = NoSource /\ textContent = <<>>
    /\ result = [path |-> "", err |-> "http status 404"]
    /\ issued = <<Get(url)>>
    /\ dest = File(<<1>>)

(***************************************************************************)
(* Properties of the buffer pool (SpecHost).                               *)
(***************************************************************************)
\* the handlers that hold a buffer of the pool
Outstanding == {c \in Conns : up[c].buf}

\* the handlers in the middle of a copy
Copying == {c \in Conns : up[c].pc \in {"copy", "mcopy"}}

\* C24: a buffer that an upload handler took from the pool is back in the
\* pool when the handler's copy is over, on every way out of it (the end of
\* the body or part, a read or write error, a return): a handler holds a
\* buffer only while it copies, and when no copy is in progress no buffer
\* is outstanding.
C24_BuffersReturned ==
    /\ Outstanding \subseteq Copying
    /\ Copying = {} => Outstanding = {}

\* a raw upload has failed in its copy and a multipart upload after it has
\* failed in the copy of its part: no buffer is outstanding
C24_Witness ==
    /\ Len(log) = 2
    /\ log[1].kind = "raw" /\ log[1].msg = "stream error"
    /\ log[2].kind = "multi" /\ log[2].msg = "write error" /\ log[2].path # <<>>
    /\ up[1].got = 1
    /\ Outstanding = {}

\* this step serves a request on the download endpoint
ServesDownload == req = NoRequest /\ req' # NoRequest

\* C30: serving a download request, of a text, a file or a directory, with
\* any Range header, answered with success or with an error, creates,
\* changes and removes no file on the server's disk; a directory's archive
\* goes into the response and is never a file.
C30_DownloadLeavesDiskAlone ==
    [][ServesDownload =>
           /\ src' = src
           /\ dirs' = dirs
           /\ names' = names
           /\ inodes' = inodes]_vars

\* a directory's archive has been sent in answer to a request with a Range
\* header; the tree is as it was and the server's disk holds no file
C30_Witness ==
    /\ Answered /\ ServesDir /\ AllReadable(src.entries)
    /\ Len(src.entries) = 3
    /\ req.range = BytesFrom(1)
    /\ resp.status = 200
    /\ Unzip(resp.body, <<>>).ok
    /\ names = EmptyMap /\ inodes = EmptyMap

(***************************************************************************)
(* Properties of the progress counter (SpecReceiveLive)                    *)
(***************************************************************************)

\* the call is copying, or has copied, a body through a progressReader
Counting == cpc \in {"copy", "done"} /\ pread >= 0

\* C26 as stated: with a progress sink the running counter is the start
\* offset plus the bytes read from the body so far; on a resumed download
\* (offset k > 0, answered 206) it never exceeds the advertised total and
\* equals it exactly when the ranged body has been read to its end; a
\* download from scratch, also one that fell back after a non-206 answer,
\* counts from 0.
C26_ProgressCounter ==
    Counting =>
        /\ pread = startByte + copied
        /\ startByte > 0 =>
               /\ dl.status = 206
               /\ pread <= totalSize
               /\ (pread = totalSize) <=> (copied = Len(dl.body))
        /\ FellBack => startByte = 0 /\ pread = copied

\* the ranged answer carries as many bytes as the probe advertised beyond
\* the offset
BodyAsAdvertised == Len(dl.body) = totalSize - startByte

\* C26: with a progress sink the running counter is the start offset plus
\* the bytes read from the body so far; on a resumed download (offset k > 0,
\* answered 206) it reaches k plus the length of the ranged body exactly
\* when that body has been read to its end and never exceeds it, and this
\* is the advertised total when the ranged body has the advertised length;
\* a download from scratch, also one that fell back after a non-206 answer,
\* counts from 0.
C26_ProgressCounterOfBody ==
    Counting =>
        /\ pread = startByte + copied
        /\ startByte > 0 =>
               /\ dl.status = 206
               /\ pread <= startByte + Len(dl.body)
               /\ (pread = startByte + Len(dl.body)) <=> (copied = Len(dl.body))
               /\ BodyAsAdvertised =>
                      /\ pread <= totalSize
                      /\ (pread = totalSize) <=> (copied = Len(dl.body))
        /\ FellBack => startByte = 0 /\ pread = copied

\* a call resumed at offset 1 has read the ranged body to its end and its
\* counter stands at the advertised total of 2
C26_Witness ==
    /\ Counting
    /\ cpc = "done" /\ result.err = ""
    /\ startByte = 1
    /\ copied = 1
    /\ pread = 2 /\ totalSize = 2

(***************************************************************************)
(* Properties of a session whose source changes (SpecLive)                 *)
(***************************************************************************)

\* the request of the current exchange names the session's token
RightToken == TokenMatches(TrimPrefix(req.path, PathPrefix))

\* the source path is missing, or is there and cannot be opened
SourceGone == src.kind \in {"none", "closedfile", "closeddir"}

\* a 404 whose body is the error line and no byte of any payload
NotFoundNoPayload == resp.status = 404 /\ resp.body = <<-404>>

\* the answer to a plain request for what the source holds now
ServedNormally ==
    /\ (src.kind = "file" /\ req.range = NoRange) =>
           resp.status = 200 /\ resp.body = src.data
    /\ (src.kind = "dir" /\ AllReadable(src.entries)) =>
           LET x == Unzip(resp.body, <<>>)
               fs == RegularFiles(src.entries)
           IN /\ resp.status = 200
              /\ x.ok /\ x.trailer = <<>>
              /\ Len(x.files) = Len(fs)
              /\ \A i \in 1..Len(fs) :
                     /\ x.files[i].name = fs[i].name
                     /\ x.files[i].data = fs[i].data

\* C23: a request with the right token to a file/directory session whose
\* source is missing or cannot be opened is answered 404 without a payload
\* byte; the session is left as it was, and whatever was answered before, a
\* request made while the source is there is served normally.
C23_GoneSourceNotFound ==
    [][(ServesDownload /\ RightToken' /\ textContent = <<>>) =>
           /\ SourceGone => NotFoundNoPayload'
           /\ UNCHANGED sessionVars
           /\ ServedNormally']_vars

\* after a 404 the source is back and the next request got the whole of it
C23_Witness ==
    /\ lastStatus = 404
    /\ Answered /\ RightToken
    /\ src = FileSource(<<2>>)
    /\ resp.status = 200 /\ resp.body = <<2>>

(***************************************************************************)
(* Properties of a server with several connections (SpecServe)             *)
(***************************************************************************)

\* a request without Range that names the session's token
ValidPlain(r) == r.range = NoRange /\ TokenMatches(TrimPrefix(r.path, PathPrefix))

\* this step is the arrival of a request on connection c
Starts(c) == down[c].pc # "send" /\ down'[c].pc = "send"

\* this step is the return of c's handler after the last byte
Finishes(c) == down[c].pc = "send" /\ down'[c].pc = "done"

\* C25: a failure stays with its request. Whatever was answered before
\* (403, 404, an archive error, a lost connection) and whatever the other
\* connections are doing, a valid request for a file that is there is
\* answered 200 with the file's bytes, a handler that returns has delivered
\* every byte of its answer in order, no step of one connection touches
\* the transfer of another, and after an upload whose stream broke the
\* next upload that is answered 200 is stored whole.
C25_FailuresAreLocal ==
    [][/\ \A c \in Conns :
              /\ (Starts(c) /\ ValidPlain(down'[c].req) /\ src.kind = "file") =>
                     /\ down'[c].resp.status = 200
                     /\ down'[c].resp.body = src.data
              /\ Finishes(c) => down'[c].got = down[c].resp.body
              /\ down'[c] # down[c] => \A d \in Conns \ {c} : down'[d] = down[d]
       /\ ReportsSuccess(1) => StoredWhole(1)]_vars

\* one connection has been lost in the middle of the file, and the other,
\* after that, has received the whole file
C25_Witness ==
    /\ src = FileSource(<<1, 2>>)
    /\ \E c \in Conns :
           /\ down[c].pc = "dropped"
           /\ down[c].resp.status = 200
           /\ down[c].got = <<1>>
    /\ \E c \in Conns :
           /\ down[c].pc = "done"
           /\ ValidPlain(down[c].req)
           /\ down[c].got = <<1, 2>>
    /\ lastStatus = 200

\* in host mode an upload whose stream broke was followed by one that was
\* answered 200 and stored
C25_WitnessHost ==
    /\ Len(log) = 2
    /\ log[1].status = 500
    /\ log[2].status = 200

(***************************************************************************)
(* Properties of the archive walk (SpecZip)                                *)
(***************************************************************************)

\* the entries the walk function has been called for
Visited == SubSeq(src.entries, 1, Len(src.entries) - Len(zw.rest))

\* C31: while a directory is archived at most one source file is open: a
\* file is open only while it is being copied, and it is that file alone;
\* between two calls of the walk function no file is open and every file
\* visited so far is in the output whole; after the walk, with or without
\* an error, no file is open; and an archive that met no read error is the
\* one ZipDirectory gives.
C31_OneFileOpen ==
    /\ Cardinality(zw.open) <= 1
    /\ zw.pc = "copy" => zw.open = {zw.cur.name}
    /\ zw.pc # "copy" => zw.open = {}
    /\ zw.pc = "walk" =>
           LET w == ZipWalk(Visited, <<>>, 0)
           IN ~w.err /\ zw.out = w.out /\ zw.count = w.count
    /\ (zw.pc = "closed" /\ zw.err \in {"", "open"}) =>
           zw.out = ZipDirectory(src.entries).out

\* the second file of a tree is open and being copied after the first was
\* archived whole
C31_Witness ==
    /\ zw.pc = "copy"
    /\ zw.cur.name = 2
    /\ zw.open = {2}
    /\ zw.n = 1
    /\ Len(Visited) = 2
    /\ ~Visited[1].dir

\* a read error has ended the walk and no file is left open
C31_WitnessError ==
    /\ zw.pc = "closed"
    /\ zw.err = "read"
    /\ zw.open = {}

(***************************************************************************)
(* Further properties of Receive's destination check (SpecReceive)         *)
(***************************************************************************)

\* the call has found a destination that is non-empty and shorter than the
\* advertised total, and has gone on to its download request
PassedPartial ==
    /\ cpc \in {"request", "copy", "done"}
    /\ Len(issued) >= 1
    /\ 0 < existingSize /\ existingSize < totalSize
    /\ result.err # "destination exists"

Refuses == cpc = "stat" /\ cpc' = "done" /\ result'.err = "destination exists"

\* C33: a call that fails with the destination-exists error has left the
\* destination as it found it: the beginning of the call, its probe and
\* the refusal itself each leave the file's existence and content
\* unchanged, and the refusal happens only to an existing file of a call
\* made without force.
C33_RefusalLeavesDestination ==
    [][/\ (cpc \in {"idle", "done", "probe"} /\ cpc' # cpc) => dest' = dest
       /\ Refuses => /\ dest' = dest
                     /\ dest.exists
                     /\ ~force]_vars

\* a call without force has been refused over a complete two-byte
\* destination, which still holds its two bytes
C33_Witness ==
    /\ cpc = "done"
    /\ result.err = "destination exists"
    /\ ~force
    /\ dest.exists /\ Len(dest.data) = 2
    /\ existingSize = 2 /\ totalSize = 2
    /\ Len(issued) = 1

(***************************************************************************)
(* Further properties of Receive under a changing source (SpecReceiveLive) *)
(***************************************************************************)

\* C34: Receive returns a saved path only when the response whose body it
\* wrote to the destination had status 200 or 206, and the body of a
\* response with another status is never written to the destination.
C34_OnlyAcceptedBodySaved ==
    /\ (cpc = "done" /\ result.err = "" /\ result.path = "out") =>
           AcceptedStatus(dl.status)
    /\ (cpc \in {"copy", "done"} /\ dl # NoResponse /\ ~AcceptedStatus(dl.status)) =>
           copied = 0

(***************************************************************************)
(* Further properties of repeated Receive calls (SpecResume)               *)
(***************************************************************************)

\* s is the beginning of t
IsPrefixOf(s, t) == Len(s) <= Len(t) /\ s = SubSeq(t, 1, Len(s))

\* C35: against an unchanged file source, beginning without a destination
\* file, whatever calls are made and wherever they are cut, the destination
\* holds at every moment a beginning of the source: every byte it has is
\* the source's byte at that position; and a call that returns its path has
\* left the whole source.
C35_DestinationIsPrefix ==
    ServesFile =>
        /\ dest.exists => IsPrefixOf(dest.data, src.data)
        /\ (CallReturned /\ result.err = "" /\ result.path = "out") =>
               dest = File(src.data)

\* a call without force has resumed a one-byte destination of a two-byte
\* source and was cut before the second byte: the destination still holds
\* the first byte
C35_Witness ==
    /\ ServesFile /\ GoodUrl
    /\ src.data = <<2, 1>>
    /\ ~force
    /\ startByte = 1
    /\ CallReturned /\ result.err = "copy"
    /\ dest = File(<<2>>)

(***************************************************************************)
(* Further properties of the multipart path (SpecHost)                     *)
(***************************************************************************)

\* C36: a multipart POST that is answered with a status other than 200 has
\* added or replaced no file: when its answer is given, the upload
\* directory holds the files it held when the request arrived, each with
\* the content it had.
C36_MultipartAllOrNothing ==
    [][\A c \in Conns :
           (/\ up'[c] # up[c]
            /\ up'[c].pc = "done"
            /\ up'[c].kind = "multi"
            /\ up'[c].resp.status # 200) =>
               Listing' = up'[c].before]_vars

(***************************************************************************)
(* Properties of the server's endpoints (SpecMux)                          *)
(***************************************************************************)

\* the prefix of the endpoint this server does not have
OtherPrefix == IF hostMode THEN PathPrefix ELSE UploadPathPrefix

\* this step is the arrival of a request on the other mode's path, with
\* the token
OtherEndpointAsked ==
    /\ req = NoRequest /\ req' # NoRequest
    /\ req'.path = OtherPrefix \o token

\* a body that holds no byte of a payload
NoPayload(body) == \A i \in 1..Len(body) : body[i] \notin Byte

\* C37: the mode of a server never changes; a request to the other mode's
\* path, with the right token, is answered 404 with no payload byte and the
\* disk is left as it was; a send-mode server starts no upload handler and
\* writes no file, and a host-mode server sends no payload byte at all.
C37_OnlyOwnEndpoint ==
    [][/\ hostMode' = hostMode
       /\ OtherEndpointAsked =>
              /\ resp'.status = 404
              /\ NoPayload(resp'.body)
              /\ resp'.body = PageNotFound.body
              /\ DiskUntouched
              /\ up' = up
       /\ ~hostMode => DiskUntouched /\ up' = up
       /\ hostMode => NoPayload(resp'.body)]_vars

\* a send-mode server with a file to send has answered a raw upload to
\* /u/<token> with 404
C37_Witness ==
    /\ ~hostMode
    /\ src.kind = "file"
    /\ req = RawRequest(NameAT, <<1>>, FALSE)
    /\ resp = PageNotFound
    /\ names = EmptyMap

\* a host-mode server that has stored an upload has answered a GET of
\* /d/<token> with 404
C37_WitnessHost ==
    /\ hostMode
    /\ req = Get(PathPrefix \o token)
    /\ resp = PageNotFound
    /\ Len(log) > 0

(***************************************************************************)
(* Properties of a --stdin session (SpecStdin)                             *)
(***************************************************************************)

\* C38: a request with the right token to a session made from standard
\* input is answered by the text responder with exactly the bytes read,
\* whatever they were, the empty input included.
C38_StdinServedAsText ==
    (Answered /\ ReqSuffix = token) =>
        /\ resp.status = 200
        /\ resp.ctype = "text/plain; charset=utf-8"
        /\ resp.clen = Len(textContent)
        /\ resp.body = textContent

=====
